---------------------------- MODULE Spec2Model ----------------------------
(***************************************************************************)
(* Model of mcp-kubernetes-ro: the metrics tools' client-side pagination   *)
(* (internal/handlers/metrics.go) and the resource type resolver           *)
(* (package kubernetes, Client.ResolveResourceType).                       *)
(*                                                                         *)
(* Go strings are modelled as sequences of byte values (ASCII codes), so   *)
(* that lower-casing, JSON encoding and base64 encoding are computed and   *)
(* not assumed.                                                            *)
(***************************************************************************)
EXTENDS Integers, Sequences, FiniteSets, TLC

VARIABLES
    nodeMetrics,   \* what the metrics server holds for nodes, in server order
    podMetrics,    \* what the metrics server holds for pods, in server order
    req,           \* the last tool request
    resp,          \* the last tool response
    chain,         \* history of a continue-token chain followed by a client
    codec,         \* a continue token being generated and parsed back
    catalog,       \* outcome of ServerPreferredResources: the lists
    discoveryErr,  \* outcome of ServerPreferredResources: the error
    resolveReq,    \* the last ResolveResourceType call
    resolveRes,    \* its result
    filter,        \* a log filtering call: content, options and outcome
    since,         \* a ParseSinceTime call: input and outcome
    callers,       \* the metrics list calls in progress, one record per caller
    listing,       \* a list_resources call: server page and outcome
    connectivity,  \* outcome of the TestConnectivity call made at startup
    startup,       \* main: flag, environment, filter and registered tools
    envcall,       \* a FirstDefault call: environment, arguments and result
    toolfilter     \* a Filter with the slices its callers hold

vars == <<nodeMetrics, podMetrics, req, resp, chain, codec,
          catalog, discoveryErr, resolveReq, resolveRes,
          filter, since, callers, listing,
          connectivity, startup, envcall, toolfilter>>

metricsVars == <<nodeMetrics, podMetrics, req, resp, chain>>
resolveVars == <<catalog, discoveryErr, resolveReq, resolveRes, connectivity>>
toolVars == <<filter, since, callers, listing>>
bootVars == <<startup, envcall, toolfilter>>

(***************************************************************************)
(* Byte strings                                                            *)
(***************************************************************************)
EmptyStr == << >>

RECURSIVE Concat(_)
Concat(ss) == IF ss = << >> THEN << >> ELSE Head(ss) \o Concat(Tail(ss))

Min(a, b) == IF a < b THEN a ELSE b

\* Go's s[from:to] with 0-based bounds, for 0 <= from <= to <= len(s)
Slice(s, from, to) == SubSeq(s, from + 1, to)

\* bytewise comparison of Go strings (the order of sort.Strings and of <)
RECURSIVE StrLess(_, _)
StrLess(a, b) ==
    IF b = << >> THEN FALSE
    ELSE IF a = << >> THEN TRUE
    ELSE IF Head(a) # Head(b) THEN Head(a) < Head(b)
    ELSE StrLess(Tail(a), Tail(b))

\* strings.ToLower on ASCII text
ToLower(s) == [i \in 1..Len(s) |-> IF s[i] \in 65..90 THEN s[i] + 32 ELSE s[i]]

\* strings.Contains(s, "/")
ContainsSlash(s) == \E i \in 1..Len(s) : s[i] = 47

\* strconv formatting of an int in base 10
RECURSIVE Digits(_)
Digits(n) == IF n < 10 THEN <<48 + n>> ELSE Digits(n \div 10) \o <<48 + (n % 10)>>

FormatInt(n) == IF n < 0 THEN <<45>> \o Digits(0 - n) ELSE Digits(n)

(***************************************************************************)
(* encoding/base64, URLEncoding (URL-safe alphabet, '=' padding)           *)
(***************************************************************************)
PadChar == 61

\* the URL-safe alphabet: A-Z a-z 0-9 - _
B64Char(v) ==
    IF v < 26 THEN 65 + v
    ELSE IF v < 52 THEN 97 + (v - 26)
    ELSE IF v < 62 THEN 48 + (v - 52)
    ELSE IF v = 62 THEN 45
    ELSE 95

IsB64Char(c) == c \in (65..90) \cup (97..122) \cup (48..57) \cup {45, 95}

B64Value(c) ==
    IF c \in 65..90 THEN c - 65
    ELSE IF c \in 97..122 THEN c - 97 + 26
    ELSE IF c \in 48..57 THEN c - 48 + 52
    ELSE IF c = 45 THEN 62
    ELSE 63

\* variant: RawURLEncoding, the last quantum is left short
RECURSIVE Base64Encode_raw(_)
Base64Encode_raw(d) ==
    IF Len(d) = 0 THEN << >>
    ELSE IF Len(d) = 1 THEN
        <<B64Char(d[1] \div 4), B64Char((d[1] % 4) * 16)>>
    ELSE IF Len(d) = 2 THEN
        <<B64Char(d[1] \div 4),
          B64Char((d[1] % 4) * 16 + d[2] \div 16),
          B64Char((d[2] % 16) * 4)>>
    ELSE
        <<B64Char(d[1] \div 4),
          B64Char((d[1] % 4) * 16 + d[2] \div 16),
          B64Char((d[2] % 16) * 4 + d[3] \div 64),
          B64Char(d[3] % 64)>> \o Base64Encode_raw(Slice(d, 3, Len(d)))

RECURSIVE Base64Encode(_)
Base64Encode(d) ==
    IF Len(d) = 0 THEN << >>
    ELSE IF Len(d) = 1 THEN
        <<B64Char(d[1] \div 4), B64Char((d[1] % 4) * 16), PadChar, PadChar>>
    ELSE IF Len(d) = 2 THEN
        <<B64Char(d[1] \div 4),
          B64Char((d[1] % 4) * 16 + d[2] \div 16),
          B64Char((d[2] % 16) * 4),
          PadChar>>
    ELSE
        <<B64Char(d[1] \div 4),
          B64Char((d[1] % 4) * 16 + d[2] \div 16),
          B64Char((d[2] % 16) * 4 + d[3] \div 64),
          B64Char(d[3] % 64)>> \o Base64Encode(Slice(d, 3, Len(d)))

\* DecodeString drops '\r' and '\n' wherever they stand
StripNewlines(t) == SelectSeq(t, LAMBDA c : c \notin {10, 13})

RECURSIVE DecodeQuanta(_)
DecodeQuanta(s) ==
    IF Len(s) = 0 THEN [ok |-> TRUE, data |-> << >>]
    ELSE IF Len(s) < 4 THEN [ok |-> FALSE, data |-> << >>]
    ELSE IF ~IsB64Char(s[1]) \/ ~IsB64Char(s[2]) THEN [ok |-> FALSE, data |-> << >>]
    ELSE
        LET v1 == B64Value(s[1])
            v2 == B64Value(s[2])
            b1 == v1 * 4 + v2 \div 16
        IN  IF s[3] = PadChar THEN
                \* "xx==" must end the input
                IF s[4] = PadChar /\ Len(s) = 4
                THEN [ok |-> TRUE, data |-> <<b1>>]
                ELSE [ok |-> FALSE, data |-> << >>]
            ELSE IF ~IsB64Char(s[3]) THEN [ok |-> FALSE, data |-> << >>]
            ELSE
                LET v3 == B64Value(s[3])
                    b2 == (v2 % 16) * 16 + v3 \div 4
                IN  IF s[4] = PadChar THEN
                        \* "xxx=" must end the input
                        IF Len(s) = 4
                        THEN [ok |-> TRUE, data |-> <<b1, b2>>]
                        ELSE [ok |-> FALSE, data |-> << >>]
                    ELSE IF ~IsB64Char(s[4]) THEN [ok |-> FALSE, data |-> << >>]
                    ELSE
                        LET b3   == (v3 % 4) * 64 + B64Value(s[4])
                            rest == DecodeQuanta(Slice(s, 4, Len(s)))
                        IN  IF rest.ok
                            THEN [ok |-> TRUE, data |-> <<b1, b2, b3>> \o rest.data]
                            ELSE rest

Base64Decode(t) == DecodeQuanta(StripNewlines(t))

(***************************************************************************)
(* encoding/json for PaginationState                                       *)
(*   Offset int `json:"offset"`, Type string `json:"type"`,                *)
(*   Namespace string `json:"namespace,omitempty"`                         *)
(* The decoder covers objects whose member values are strings, numbers,    *)
(* null, true or false; arrays and nested objects are outside the modelled *)
(* inputs. String escapes covered: \" \\ \/ .                              *)
(***************************************************************************)
PaginationState(offset, type, namespace) ==
    [Offset |-> offset, Type |-> type, Namespace |-> namespace]

ZeroPaginationState == PaginationState(0, EmptyStr, EmptyStr)

\* variant: the string is copied without escaping
JsonEscape_raw(s) == s

\* a Go string as a JSON string literal: '"' and '\' are escaped
RECURSIVE JsonEscape(_)
JsonEscape(s) ==
    IF s = << >> THEN << >>
    ELSE (IF Head(s) \in {34, 92} THEN <<92, Head(s)>> ELSE <<Head(s)>>)
         \o JsonEscape(Tail(s))

JsonQuote(s) == <<34>> \o JsonEscape(s) \o <<34>>

\* json.Marshal(state): {"offset":N,"type":"T"} and ,"namespace":"NS" unless empty
JsonMarshal(state) ==
    Concat(<< <<123,34,111,102,102,115,101,116,34,58>>,   \* {"offset":
              FormatInt(state.Offset),
              <<44,34,116,121,112,101,34,58>>,            \* ,"type":
              JsonQuote(state.Type),
              IF state.Namespace = EmptyStr THEN << >>
              ELSE <<44,34,110,97,109,101,115,112,97,99,101,34,58>>  \* ,"namespace":
                   \o JsonQuote(state.Namespace),
              <<125>> >>)

IsSpace(c) == c \in {32, 9, 10, 13}
IsDigit(c) == c \in 48..57

RECURSIVE SkipWS(_, _)
SkipWS(d, i) == IF i <= Len(d) /\ IsSpace(d[i]) THEN SkipWS(d, i + 1) ELSE i

\* scans a string literal whose opening quote is at i - 1
RECURSIVE ScanString(_, _, _)
ScanString(d, i, acc) ==
    IF i > Len(d) THEN [ok |-> FALSE, pos |-> i, kind |-> "string", val |-> acc]
    ELSE IF d[i] = 34 THEN [ok |-> TRUE, pos |-> i + 1, kind |-> "string", val |-> acc]
    ELSE IF d[i] < 32 THEN [ok |-> FALSE, pos |-> i, kind |-> "string", val |-> acc]
    ELSE IF d[i] = 92 THEN
        IF i + 1 <= Len(d) /\ d[i + 1] \in {34, 92, 47}
        THEN ScanString(d, i + 2, Append(acc, d[i + 1]))
        ELSE [ok |-> FALSE, pos |-> i, kind |-> "string", val |-> acc]
    ELSE ScanString(d, i + 1, Append(acc, d[i]))

RECURSIVE ScanDigits(_, _, _)
ScanDigits(d, i, acc) ==
    IF i <= Len(d) /\ IsDigit(d[i])
    THEN ScanDigits(d, i + 1, acc * 10 + (d[i] - 48))
    ELSE [pos |-> i, val |-> acc]

NumberBad(i) == [ok |-> FALSE, pos |-> i, kind |-> "int", val |-> 0]

\* the digits after a decimal point, scanned into frac, make the number a float
ScanFraction(i, v, frac) ==
    IF frac.pos = i + 1 THEN NumberBad(i)
    ELSE [ok |-> TRUE, pos |-> frac.pos, kind |-> "float", val |-> v]

\* int: the integer part scanned; neg: a minus sign stood before it
ScanAfterInt(d, neg, int) ==
    IF int.pos <= Len(d) /\ d[int.pos] = 46
    THEN ScanFraction(int.pos, IF neg THEN 0 - int.val ELSE int.val,
                      ScanDigits(d, int.pos + 1, 0))
    ELSE [ok |-> TRUE, pos |-> int.pos, kind |-> "int",
          val |-> IF neg THEN 0 - int.val ELSE int.val]

ScanUnsigned(d, i, neg, j) ==
    IF j > Len(d) \/ ~IsDigit(d[j]) THEN NumberBad(i)
    ELSE ScanAfterInt(d, neg, IF d[j] = 48 THEN [pos |-> j + 1, val |-> 0]
                              ELSE ScanDigits(d, j, 0))

\* a number literal: -? (0 | [1-9][0-9]*) (. [0-9]+)? ; kind "int" or "float"
ScanNumber(d, i) == ScanUnsigned(d, i, d[i] = 45, IF d[i] = 45 THEN i + 1 ELSE i)

ScanLiteral(d, i, word, kind) ==
    IF i + Len(word) - 1 <= Len(d) /\ Slice(d, i - 1, i - 1 + Len(word)) = word
    THEN [ok |-> TRUE, pos |-> i + Len(word), kind |-> kind, val |-> 0]
    ELSE [ok |-> FALSE, pos |-> i, kind |-> kind, val |-> 0]

\* one member value starting at i
ScanValue(d, i) ==
    IF i > Len(d) THEN [ok |-> FALSE, pos |-> i, kind |-> "none", val |-> 0]
    ELSE IF d[i] = 34 THEN ScanString(d, i + 1, << >>)
    ELSE IF d[i] = 45 \/ IsDigit(d[i]) THEN ScanNumber(d, i)
    ELSE IF d[i] = 110 THEN ScanLiteral(d, i, <<110,117,108,108>>, "null")
    ELSE IF d[i] = 116 THEN ScanLiteral(d, i, <<116,114,117,101>>, "bool")
    ELSE IF d[i] = 102 THEN ScanLiteral(d, i, <<102,97,108,115,101>>, "bool")
    ELSE [ok |-> FALSE, pos |-> i, kind |-> "none", val |-> 0]

\* stores one member into the struct; field names match case-insensitively,
\* unknown members are ignored, null leaves the field alone, a value of the
\* wrong JSON type is an UnmarshalTypeError
SetField(st, key, v) ==
    LET k == ToLower(key)
    IN  IF k = <<111,102,102,115,101,116>> THEN                     \* offset
            IF v.kind = "null" THEN [ok |-> TRUE, st |-> st]
            ELSE IF v.kind = "int" THEN [ok |-> TRUE, st |-> [st EXCEPT !.Offset = v.val]]
            ELSE [ok |-> FALSE, st |-> st]
        ELSE IF k = <<116,121,112,101>> THEN                        \* type
            IF v.kind = "null" THEN [ok |-> TRUE, st |-> st]
            ELSE IF v.kind = "string" THEN [ok |-> TRUE, st |-> [st EXCEPT !.Type = v.val]]
            ELSE [ok |-> FALSE, st |-> st]
        ELSE IF k = <<110,97,109,101,115,112,97,99,101>> THEN       \* namespace
            IF v.kind = "null" THEN [ok |-> TRUE, st |-> st]
            ELSE IF v.kind = "string" THEN [ok |-> TRUE, st |-> [st EXCEPT !.Namespace = v.val]]
            ELSE [ok |-> FALSE, st |-> st]
        ELSE [ok |-> TRUE, st |-> st]

MembersBad(st) == [ok |-> FALSE, pos |-> 0, st |-> st]

RECURSIVE ScanMembers(_, _, _)

\* f: the struct after the member was stored; e: the position after the value
MemberStored(d, f, e) ==
    IF e > Len(d) \/ ~f.ok THEN MembersBad(f.st)
    ELSE IF d[e] = 125 THEN [ok |-> TRUE, pos |-> e + 1, st |-> f.st]
    ELSE IF d[e] = 44 THEN ScanMembers(d, SkipWS(d, e + 1), f.st)
    ELSE MembersBad(f.st)

MemberValue(d, st, key, v) ==
    IF ~v.ok THEN MembersBad(st)
    ELSE MemberStored(d, SetField(st, key.val, v), SkipWS(d, v.pos))

\* c: the position where the colon must stand
MemberColon(d, st, key, c) ==
    IF c > Len(d) \/ d[c] # 58 THEN MembersBad(st)
    ELSE MemberValue(d, st, key, ScanValue(d, SkipWS(d, c + 1)))

MemberKey(d, st, key) ==
    IF ~key.ok THEN MembersBad(st)
    ELSE MemberColon(d, st, key, SkipWS(d, key.pos))

\* members of an object; i is at the opening quote of a key
ScanMembers(d, i, st) ==
    IF i > Len(d) \/ d[i] # 34 THEN MembersBad(st)
    ELSE MemberKey(d, st, ScanString(d, i + 1, << >>))

UnmarshalBad == [ok |-> FALSE, st |-> ZeroPaginationState]

\* m: the members scanned; only white space may follow the closing brace
UnmarshalEnd(d, m) ==
    IF m.ok /\ SkipWS(d, m.pos) > Len(d) THEN [ok |-> TRUE, st |-> m.st]
    ELSE UnmarshalBad

UnmarshalObject(d, j) ==
    IF j <= Len(d) /\ d[j] = 125
    THEN UnmarshalEnd(d, [ok |-> TRUE, pos |-> j + 1, st |-> ZeroPaginationState])
    ELSE UnmarshalEnd(d, ScanMembers(d, j, ZeroPaginationState))

\* null decodes into a struct as a no-op; any other scalar is a type error
\* and anything else a syntax error
UnmarshalScalar(d, v) ==
    IF v.ok /\ v.kind = "null" /\ SkipWS(d, v.pos) > Len(d)
    THEN [ok |-> TRUE, st |-> ZeroPaginationState]
    ELSE UnmarshalBad

UnmarshalAt(d, i) ==
    IF i > Len(d) THEN UnmarshalBad
    ELSE IF d[i] = 123 THEN UnmarshalObject(d, SkipWS(d, i + 1))
    ELSE UnmarshalScalar(d, ScanValue(d, i))

\* json.Unmarshal(data, &state) with state the zero PaginationState
JsonUnmarshal(d) == UnmarshalAt(d, SkipWS(d, 1))

(***************************************************************************)
(* internal/handlers/metrics.go: continue tokens and the page window       *)
(***************************************************************************)
generateContinueToken(offset, itemType, namespace) ==
    Base64Encode(JsonMarshal(PaginationState(offset, itemType, namespace)))

\* variant: the error of json.Unmarshal is not looked at
ParseRecord_lenient(j) == [err |-> "", state |-> j.st]

\* j: the outcome of json.Unmarshal
ParseRecord(j) ==
    IF ~j.ok
    THEN [err |-> "invalid continue token format", state |-> ZeroPaginationState]
    ELSE [err |-> "", state |-> j.st]

\* b: the outcome of DecodeString
ParseDecoded(b) ==
    IF ~b.ok
    THEN [err |-> "invalid continue token", state |-> ZeroPaginationState]
    ELSE ParseRecord(JsonUnmarshal(b.data))

parseContinueToken(token) ==
    IF token = EmptyStr THEN [err |-> "", state |-> ZeroPaginationState]
    ELSE ParseDecoded(Base64Decode(token))

\* variant: hasMore is taken with <= instead of <
paginateItems_inclusive(items, limit, offset) ==
    IF offset >= Len(items)
    THEN [panic |-> FALSE, items |-> << >>, hasMore |-> FALSE]
    ELSE
        LET end     == offset + limit
            hasMore == end <= Len(items)
            end2    == IF end > Len(items) THEN Len(items) ELSE end
        IN  IF offset < 0 \/ end2 < offset
            THEN [panic |-> TRUE, items |-> << >>, hasMore |-> hasMore]
            ELSE [panic |-> FALSE, items |-> Slice(items, offset, end2),
                  hasMore |-> hasMore]

\* items[offset:end] panics when offset < 0 (slice bounds out of range)
paginateItems(items, limit, offset) ==
    IF offset >= Len(items)
    THEN [panic |-> FALSE, items |-> << >>, hasMore |-> FALSE]
    ELSE
        LET end     == offset + limit
            hasMore == end < Len(items)
            end2    == IF end > Len(items) THEN Len(items) ELSE end
        IN  IF offset < 0 \/ end2 < offset
            THEN [panic |-> TRUE, items |-> << >>, hasMore |-> hasMore]
            ELSE [panic |-> FALSE, items |-> Slice(items, offset, end2),
                  hasMore |-> hasMore]

(***************************************************************************)
(* Bounds and the values requests are drawn from                           *)
(***************************************************************************)
MaxItems == 3      \* longest metrics list held by the metrics server
MaxLimit == 3      \* largest limit argument
MaxOffset == 2     \* largest offset of a well-formed token a client presents

str_node == <<110,111,100,101>>     \* "node"
str_pod  == <<112,111,100>>         \* "pod"
ns_a     == <<97>>                  \* namespace "a"
ns_b     == <<98,34>>               \* namespace b" (needs JSON escaping)

Namespaces == {ns_a, ns_b}

\* metrics records: name, namespace ("" for nodes), timestamp
Metric(name, namespace, ts) == [name |-> name, namespace |-> namespace, ts |-> ts]

\* the metrics the server may hold: the k-th node and the k-th pod
NodeUniverse == << Metric(<<110,49>>, EmptyStr, 1),      \* n1
                   Metric(<<110,50>>, EmptyStr, 3),      \* n2
                   Metric(<<110,51>>, EmptyStr, 3),      \* n3
                   Metric(<<110,48>>, EmptyStr, 2) >>    \* n0

PodUniverse == << Metric(<<112,49>>, ns_a, 1),           \* a/p1
                  Metric(<<112,50>>, ns_b, 3),           \* b"/p2
                  Metric(<<112,51>>, ns_a, 3),           \* a/p3
                  Metric(<<112,48>>, ns_a, 2) >>         \* a/p0

\* sequences without repetition over S, up to length n
RECURSIVE InjectiveSeqs(_, _)
InjectiveSeqs(S, n) ==
    IF n = 0 THEN { << >> }
    ELSE LET shorter == InjectiveSeqs(S, n - 1)
             longest == { t \in shorter : Len(t) = n - 1 }
         IN  shorter \cup
             { Append(q[1], q[2]) :
                 q \in { r \in longest \X S :
                           \A i \in 1..Len(r[1]) : r[1][i] # r[2] } }

(***************************************************************************)
(* Sorting: sort.Slice / sort.Strings on the short slices of the model is  *)
(* insertion sort                                                          *)
(***************************************************************************)
\* the less functions of the handlers
Less(by, a, b) ==
    CASE by = "timestamp" -> a.ts > b.ts                    \* Timestamp.After
      [] by = "string"    -> StrLess(a, b)                  \* sort.Strings
      [] by = "podname"   -> IF a.namespace # b.namespace
                             THEN StrLess(a.namespace, b.namespace)
                             ELSE StrLess(a.name, b.name)

\* inserts x after the last element it is not less than
RECURSIVE InsertSorted(_, _, _)
InsertSorted(by, s, x) ==
    IF s = << >> THEN <<x>>
    ELSE LET last == s[Len(s)]
         IN  IF Less(by, x, last)
             THEN Append(InsertSorted(by, SubSeq(s, 1, Len(s) - 1), x), last)
             ELSE Append(s, x)

RECURSIVE SortSlice(_, _)
SortSlice(by, s) ==
    IF s = << >> THEN << >>
    ELSE InsertSorted(by, SortSlice(by, SubSeq(s, 1, Len(s) - 1)), s[Len(s)])

(***************************************************************************)
(* Tool responses (internal/response)                                      *)
(***************************************************************************)
\* response.Error / response.Errorf
ErrorResult(msg) ==
    [isError |-> TRUE, panic |-> FALSE, msg |-> msg, kind |-> "",
     namespace |-> EmptyStr, count |-> 0, items |-> << >>,
     hasContinue |-> FALSE, continue |-> EmptyStr]

\* response.JSON of a list result map
ListResult(kind, namespace, items, hasContinue, continue) ==
    [isError |-> FALSE, panic |-> FALSE, msg |-> "", kind |-> kind,
     namespace |-> namespace, count |-> Len(items), items |-> items,
     hasContinue |-> hasContinue, continue |-> continue]

\* response.JSON of a single object
ObjectResult(obj) ==
    [isError |-> FALSE, panic |-> FALSE, msg |-> "", kind |-> "object",
     namespace |-> EmptyStr, count |-> 1, items |-> <<obj>>,
     hasContinue |-> FALSE, continue |-> EmptyStr]

\* a handler that panicked: the slice expression is outside the bounds
PanicResult ==
    [isError |-> FALSE, panic |-> TRUE, msg |-> "slice bounds out of range",
     kind |-> "", namespace |-> EmptyStr, count |-> 0, items |-> << >>,
     hasContinue |-> FALSE, continue |-> EmptyStr]

NoResponse ==
    [isError |-> FALSE, panic |-> FALSE, msg |-> "", kind |-> "none",
     namespace |-> EmptyStr, count |-> 0, items |-> << >>,
     hasContinue |-> FALSE, continue |-> EmptyStr]

(***************************************************************************)
(* The metrics client calls (package kubernetes)                           *)
(***************************************************************************)
\* PodMetricses(namespace).List
GetPodMetricsByNamespace(pods, namespace) ==
    SelectSeq(pods, LAMBDA m : m.namespace = namespace)

\* NodeMetricses().Get / PodMetricses(namespace).Get
GetMetricsByName(list, namespace, name) ==
    SelectSeq(list, LAMBDA m : m.namespace = namespace /\ m.name = name)

TitleOfNode(m) == m.name
TitleOfPod(m)  == [name |-> m.name, namespace |-> m.namespace]

NodeTitles(s) == [i \in 1..Len(s) |-> TitleOfNode(s[i])]
PodTitles(s)  == [i \in 1..Len(s) |-> TitleOfPod(s[i])]

(***************************************************************************)
(* MetricsHandler.GetNodeMetrics                                           *)
(* p: NodeName, Limit, Continue, TitleOnly; fetchOK: the metrics server    *)
(* answers                                                                 *)
(***************************************************************************)
\* the response built from the page (lines 229-242, and 180-192 for title_only)
NodePageResult(p, offset, page) ==
    IF page.panic THEN PanicResult
    ELSE ListResult("NodeMetricsList", EmptyStr, page.items, page.hasMore,
            IF page.hasMore
            THEN generateContinueToken(offset + p.Limit, str_node, EmptyStr)
            ELSE EmptyStr)

NodePageFrom(allItems, p, parsed) ==
    IF parsed.err # "" THEN ErrorResult("invalid continue token")
    ELSE NodePageResult(p, parsed.state.Offset,
                        paginateItems(allItems, p.Limit, parsed.state.Offset))

\* the pagination code, written twice in the handler: for title_only and for
\* full metrics
NodePage(allItems, p) == NodePageFrom(allItems, p, parseContinueToken(p.Continue))

NodeList(allItems, p) ==
    IF p.Limit > 0 THEN NodePage(allItems, p)
    ELSE ListResult("NodeMetricsList", EmptyStr, allItems, FALSE, EmptyStr)

NodeByName(p, fetchOK, found) ==
    IF ~fetchOK \/ found = << >> THEN ErrorResult("failed to get node metrics")
    ELSE IF p.TitleOnly THEN ObjectResult(TitleOfNode(found[1]))
    ELSE ObjectResult(found[1])

GetNodeMetrics(nodes, p, fetchOK) ==
    IF p.NodeName # EmptyStr
    THEN NodeByName(p, fetchOK, GetMetricsByName(nodes, EmptyStr, p.NodeName))
    ELSE IF ~fetchOK THEN ErrorResult("failed to get node metrics")
    ELSE NodeList(IF p.TitleOnly
                  THEN SortSlice("string", NodeTitles(nodes))     \* names, alphabetically
                  ELSE SortSlice("timestamp", nodes),             \* newest first
                  p)

(***************************************************************************)
(* MetricsHandler.GetPodMetrics                                            *)
(* p: Namespace, PodName, Limit, Continue, TitleOnly                       *)
(***************************************************************************)
\* variant: the next token repeats the offset of the page
PodPageResult_sameOffset(p, offset, page) ==
    IF page.panic THEN PanicResult
    ELSE ListResult("PodMetricsList", p.Namespace, page.items, page.hasMore,
            IF page.hasMore
            THEN generateContinueToken(offset, str_pod, p.Namespace)
            ELSE EmptyStr)

PodPageResult(p, offset, page) ==
    IF page.panic THEN PanicResult
    ELSE ListResult("PodMetricsList", p.Namespace, page.items, page.hasMore,
            IF page.hasMore
            THEN generateContinueToken(offset + p.Limit, str_pod, p.Namespace)
            ELSE EmptyStr)

PodPageAt(allItems, p, offset) ==
    PodPageResult(p, offset, paginateItems(allItems, p.Limit, offset))

\* variant: the offset of the token is kept when the namespace changed
PodPageFrom_keepOffset(allItems, p, parsed) ==
    IF parsed.err # "" THEN ErrorResult("invalid continue token")
    ELSE IF parsed.state.Type # EmptyStr /\ parsed.state.Type # str_pod
    THEN ErrorResult("continue token is not valid for pod metrics")
    ELSE PodPageAt(allItems, p, parsed.state.Offset)

PodPageFrom(allItems, p, parsed) ==
    IF parsed.err # "" THEN ErrorResult("invalid continue token")
    ELSE IF parsed.state.Type # EmptyStr /\ parsed.state.Type # str_pod
    THEN ErrorResult("continue token is not valid for pod metrics")
    ELSE PodPageAt(allItems, p,
                   IF parsed.state.Namespace # p.Namespace THEN 0
                   ELSE parsed.state.Offset)

\* the pagination code, written twice in the handler: for title_only and for
\* full metrics
PodPage(allItems, p) == PodPageFrom(allItems, p, parseContinueToken(p.Continue))

PodList(allItems, p) ==
    IF p.Limit > 0 THEN PodPage(allItems, p)
    ELSE ListResult("PodMetricsList", p.Namespace, allItems, FALSE, EmptyStr)

PodByName(p, fetchOK, found) ==
    IF ~fetchOK \/ found = << >> THEN ErrorResult("failed to get pod metrics")
    ELSE IF p.TitleOnly THEN ObjectResult(TitleOfPod(found[1]))
    ELSE ObjectResult(found[1])

\* fetched: the answer of the metrics server
PodListOf(fetched, p) ==
    PodList(IF p.TitleOnly
            THEN SortSlice("podname", PodTitles(fetched))   \* namespace, then name
            ELSE SortSlice("timestamp", fetched),           \* newest first
            p)

GetPodMetrics(pods, p, fetchOK) ==
    IF p.PodName # EmptyStr THEN
        IF p.Namespace = EmptyStr
        THEN ErrorResult("namespace is required when specifying pod_name")
        ELSE PodByName(p, fetchOK, GetMetricsByName(pods, p.Namespace, p.PodName))
    ELSE IF ~fetchOK THEN ErrorResult("failed to get pod metrics")
    ELSE PodListOf(IF p.Namespace # EmptyStr
                   THEN GetPodMetricsByNamespace(pods, p.Namespace)
                   ELSE pods,
                   p)

(***************************************************************************)
(* Continue tokens a client may present                                    *)
(***************************************************************************)
tok_badchar  == <<33,33,33,33>>                           \* !!!!  not base64
tok_unpadded == <<101,51,48>>                             \* e30   {} without padding
tok_notjson  == <<101,72,108,54>>                         \* eHl6  base64 of xyz
tok_badtype  == Base64Encode(<<123,34,111,102,102,115,101,116,34,58,34,49,34,125>>)
                                                          \* {"offset":"1"}
tok_emptyobj == <<101,51,48,61>>                          \* e30=  {}

UndecodableTokens == {tok_badchar, tok_unpadded, tok_notjson, tok_badtype}

\* offsets of hand-made tokens: negative, in range, beyond every list
TokenOffsets == {-1} \cup (0..MaxOffset) \cup {MaxItems + 2}

TokenScopes == {<<str_node, EmptyStr>>} \cup { <<str_pod, ns>> : ns \in Namespaces \cup {EmptyStr} }

RecordTokens == { generateContinueToken(o, s[1], s[2]) : o \in TokenOffsets, s \in TokenScopes }

Tokens == {EmptyStr, tok_emptyobj} \cup UndecodableTokens \cup RecordTokens

NodeNames == { NodeUniverse[1].name, <<122>> }
PodNames  == { PodUniverse[1].name, <<122>> }

\* list requests page with any token; the other request shapes ignore it
NodeRequests ==
    [NodeName : {EmptyStr}, Limit : 1..MaxLimit, Continue : Tokens, TitleOnly : BOOLEAN]
    \cup [NodeName : {EmptyStr}, Limit : {0}, Continue : {EmptyStr, tok_badchar},
          TitleOnly : BOOLEAN]
    \cup [NodeName : NodeNames, Limit : {0, 1}, Continue : {EmptyStr}, TitleOnly : BOOLEAN]

PodRequests ==
    [Namespace : Namespaces \cup {EmptyStr}, PodName : {EmptyStr}, Limit : 1..MaxLimit,
     Continue : Tokens, TitleOnly : BOOLEAN]
    \cup [Namespace : Namespaces \cup {EmptyStr}, PodName : {EmptyStr}, Limit : {0},
          Continue : {EmptyStr, tok_badchar}, TitleOnly : BOOLEAN]
    \cup [Namespace : {ns_a, EmptyStr}, PodName : PodNames, Limit : {0, 1},
          Continue : {EmptyStr}, TitleOnly : BOOLEAN]

(***************************************************************************)
(* State machine of the metrics tools. The handlers keep no state: the     *)
(* model follows one client conversation per behaviour, a first request    *)
(* and then the chain of continue tokens it yields.                        *)
(***************************************************************************)
\* the metrics server answers or fails; failures are tried on first pages
FetchOutcomes(p) == IF p.Continue = EmptyStr THEN BOOLEAN ELSE {TRUE}

NoRequest == [tool |-> "none", p |-> [Limit |-> 0], fetchOK |-> TRUE]
ChainIdle == [active |-> FALSE, acc |-> << >>, calls |-> 0]

\* a client starts a chain with a paged list request and the empty token
StartsChain(p, name, r) ==
    name = EmptyStr /\ p.Limit > 0 /\ p.Continue = EmptyStr /\ ~r.isError /\ ~r.panic

MetricsIdle ==
    /\ nodeMetrics = << >>
    /\ podMetrics = << >>
    /\ req = NoRequest
    /\ resp = NoResponse
    /\ chain = ChainIdle

CodecIdle == codec = [phase |-> "idle"]

FilterIdle == filter = [phase |-> "idle"]
SinceIdle == since = [phase |-> "idle"]
CallersIdle == callers = << >>
ListingIdle == listing = [phase |-> "idle"]
ToolsIdle == FilterIdle /\ SinceIdle /\ CallersIdle /\ ListingIdle

StartupIdle == startup = [phase |-> "idle"]
EnvIdle == envcall = [phase |-> "idle"]
ToolFilterIdle == toolfilter = [phase |-> "idle"]
BootIdle == StartupIdle /\ EnvIdle /\ ToolFilterIdle

ResolveIdle ==
    /\ catalog = << >>
    /\ discoveryErr = FALSE
    /\ resolveReq = [resourceType |-> EmptyStr, apiVersion |-> EmptyStr]
    /\ resolveRes = [status |-> "none"]
    /\ connectivity = [status |-> "none"]

InitMetrics ==
    /\ \E order \in InjectiveSeqs(1..Len(PodUniverse), MaxItems) :
          /\ nodeMetrics = [i \in 1..Len(order) |-> NodeUniverse[order[i]]]
          /\ podMetrics = [i \in 1..Len(order) |-> PodUniverse[order[i]]]
    /\ req = NoRequest
    /\ resp = NoResponse
    /\ chain = ChainIdle
    /\ CodecIdle
    /\ ResolveIdle
    /\ ToolsIdle
    /\ BootIdle

\* the response r to the first request of a conversation
Answer(tool, p, fetchOK, name, r) ==
    /\ req' = [tool |-> tool, p |-> p, fetchOK |-> fetchOK]
    /\ resp' = r
    /\ chain' = IF StartsChain(p, name, r)
                THEN [active |-> TRUE, acc |-> r.items, calls |-> 1]
                ELSE ChainIdle
    /\ UNCHANGED <<nodeMetrics, podMetrics, codec, resolveVars, toolVars, bootVars>>

\* a get_node_metrics tool call opening a client conversation
CallGetNodeMetrics ==
    /\ req.tool = "none"
    /\ \E p \in NodeRequests : \E fetchOK \in FetchOutcomes(p) :
         Answer("get_node_metrics", p, fetchOK, p.NodeName,
                GetNodeMetrics(nodeMetrics, p, fetchOK))

\* a get_pod_metrics tool call opening a client conversation
CallGetPodMetrics ==
    /\ req.tool = "none"
    /\ \E p \in PodRequests : \E fetchOK \in FetchOutcomes(p) :
         Answer("get_pod_metrics", p, fetchOK, p.PodName,
                GetPodMetrics(podMetrics, p, fetchOK))

\* the response r to the request repeated with the returned token
Followed(p, r) ==
    /\ req' = [req EXCEPT !.p = p]
    /\ resp' = r
    /\ chain' = [active |-> TRUE, acc |-> chain.acc \o r.items,
                 calls |-> chain.calls + 1]
    /\ UNCHANGED <<nodeMetrics, podMetrics, codec, resolveVars, toolVars, bootVars>>

FollowRequest == [req.p EXCEPT !.Continue = resp.continue]

\* the client repeats its request with the continue token of the last page
FollowContinue ==
    /\ chain.active
    /\ resp.hasContinue
    /\ Followed(FollowRequest,
                IF req.tool = "get_node_metrics"
                THEN GetNodeMetrics(nodeMetrics, FollowRequest, TRUE)
                ELSE GetPodMetrics(podMetrics, FollowRequest, TRUE))

NextMetrics == CallGetNodeMetrics \/ CallGetPodMetrics \/ FollowContinue

SpecMetrics == InitMetrics /\ [][NextMetrics]_vars

(***************************************************************************)
(* Properties of the metrics tools                                         *)
(***************************************************************************)
\* the last request is a list request that reached the pagination code
PagedRequest ==
    /\ req.tool \in {"get_node_metrics", "get_pod_metrics"}
    /\ req.fetchOK
    /\ req.p.Limit > 0
    /\ IF req.tool = "get_node_metrics"
       THEN req.p.NodeName = EmptyStr
       ELSE req.p.PodName = EmptyStr

RequestKind == IF req.tool = "get_node_metrics" THEN str_node ELSE str_pod

RequestNamespace == IF req.tool = "get_node_metrics" THEN EmptyStr ELSE req.p.Namespace

\* the ordered item list L the last request pages over
RequestList ==
    IF req.tool = "get_node_metrics" THEN
        IF req.p.TitleOnly
        THEN SortSlice("string", NodeTitles(nodeMetrics))
        ELSE SortSlice("timestamp", nodeMetrics)
    ELSE
        LET fetched == IF req.p.Namespace # EmptyStr
                       THEN GetPodMetricsByNamespace(podMetrics, req.p.Namespace)
                       ELSE podMetrics
        IN  IF req.p.TitleOnly
            THEN SortSlice("podname", PodTitles(fetched))
            ELSE SortSlice("timestamp", fetched)

\* what the presented continue token decodes to
Presented == parseContinueToken(req.p.Continue)

\* C1: following the continue tokens from the empty token, the pages read so
\* far are the first calls*limit items of L in order, a further token is
\* issued exactly while items remain, and when none is issued the pages
\* together are exactly L
C1_ChainReconstructsList ==
    chain.active =>
        /\ ~resp.isError /\ ~resp.panic
        /\ chain.acc = SubSeq(RequestList, 1,
                              Min(chain.calls * req.p.Limit, Len(RequestList)))
        /\ resp.hasContinue <=> (chain.calls * req.p.Limit < Len(RequestList))
        /\ ~resp.hasContinue => chain.acc = RequestList

C1_Witness ==
    /\ chain.active
    /\ chain.calls >= 2
    /\ ~resp.hasContinue
    /\ Len(chain.acc) >= 3
    /\ req.p.Limit = 2

\* C2: with limit > 0, a token whose kind is the other tool's kind is
\* rejected with an error, by get_pod_metrics and by get_node_metrics alike
C2_KindMismatchRejected ==
    ( /\ PagedRequest
      /\ Presented.err = ""
      /\ req.p.Continue # EmptyStr
      /\ Presented.state.Type \in {str_node, str_pod}
      /\ Presented.state.Offset >= 0
      /\ Presented.state.Type # RequestKind )
    => (resp.isError /\ resp.items = << >>)

\* C3: get_pod_metrics with limit > 0 and a pod token of another namespace
\* answers with the first page of the request's list, and a token it
\* issues decodes to (limit, pod, request namespace)
C3_NamespaceChangeRestarts ==
    ( /\ PagedRequest
      /\ req.tool = "get_pod_metrics"
      /\ req.p.Continue # EmptyStr
      /\ Presented.err = ""
      /\ Presented.state.Type = str_pod
      /\ Presented.state.Namespace # req.p.Namespace )
    => /\ ~resp.isError /\ ~resp.panic
       /\ resp.items = SubSeq(RequestList, 1, Min(req.p.Limit, Len(RequestList)))
       /\ resp.hasContinue =>
            parseContinueToken(resp.continue) =
                [err |-> "", state |-> PaginationState(req.p.Limit, str_pod, req.p.Namespace)]

C3_Witness ==
    /\ PagedRequest
    /\ req.tool = "get_pod_metrics"
    /\ Presented.err = ""
    /\ Presented.state.Type = str_pod
    /\ Presented.state.Offset = 2
    /\ Presented.state.Namespace = ns_b
    /\ req.p.Namespace = ns_a
    /\ resp.hasContinue
    /\ resp.count = 1

\* C4: with limit > 0 a non-empty token that is not URL-safe base64 or not a
\* JSON pagination record gives the invalid-token error and no page; the
\* empty token is accepted and the page starts at offset 0
C4_UndecodableTokenRejected ==
    PagedRequest =>
        /\ req.p.Continue \in UndecodableTokens =>
             /\ resp.isError
             /\ resp.msg = "invalid continue token"
             /\ resp.items = << >> /\ ~resp.hasContinue
        /\ (req.p.Continue = EmptyStr /\ chain.calls <= 1) =>
             /\ ~resp.isError /\ ~resp.panic
             /\ resp.items = SubSeq(RequestList, 1, Min(req.p.Limit, Len(RequestList)))

C4_Witness ==
    /\ PagedRequest
    /\ req.p.Continue = tok_badtype
    /\ req.tool = "get_node_metrics"
    /\ Len(nodeMetrics) > 0
    /\ resp.isError


(***************************************************************************)
(* The token codec on its own: generateContinueToken, then                 *)
(* parseContinueToken on what it returned                                  *)
(***************************************************************************)
MaxEncOffset == 11     \* largest offset encoded (two decimal digits)
MaxNsLen == 2          \* longest namespace encoded

\* characters of namespaces: a  "  \  ~
NsAlphabet == {97, 34, 92, 126}

NsStrings == UNION { [1..n -> NsAlphabet] : n \in 0..MaxNsLen }

InitCodec ==
    /\ CodecIdle
    /\ MetricsIdle
    /\ ResolveIdle
    /\ ToolsIdle
    /\ BootIdle

\* state := generateContinueToken(offset, itemType, namespace)
Generate ==
    /\ codec.phase = "idle"
    /\ \E o \in 0..MaxEncOffset, k \in {str_node, str_pod}, ns \in NsStrings :
         codec' = [phase |-> "generated", offset |-> o, kind |-> k, namespace |-> ns,
                   record |-> JsonMarshal(PaginationState(o, k, ns)),
                   token |-> generateContinueToken(o, k, ns)]
    /\ UNCHANGED <<metricsVars, resolveVars, toolVars, bootVars>>

\* parseContinueToken(token) on the generated token
Parse ==
    /\ codec.phase = "generated"
    /\ codec' = [phase |-> "parsed", offset |-> codec.offset, kind |-> codec.kind,
                 namespace |-> codec.namespace, record |-> codec.record,
                 token |-> codec.token,
                 parsed |-> parseContinueToken(codec.token)]
    /\ UNCHANGED <<metricsVars, resolveVars, toolVars, bootVars>>

NextCodec == Generate \/ Parse

SpecCodec == InitCodec /\ [][NextCodec]_vars

\* C5: parsing a generated token succeeds and gives back exactly the
\* offset, the kind and the namespace it was generated from
C5_TokenRoundTrip ==
    codec.phase = "parsed" =>
        codec.parsed = [err |-> "",
                        state |-> PaginationState(codec.offset, codec.kind, codec.namespace)]

C5_Witness ==
    /\ codec.phase = "parsed"
    /\ codec.offset = MaxEncOffset
    /\ codec.kind = str_pod
    /\ codec.namespace = <<34, 92>>
    /\ codec.parsed.state.Namespace = <<34, 92>>

\* C6 as claimed: a generated token holds URL-safe base64 characters only
\* and never the padding character
C6_TokenUnpadded ==
    codec.phase # "idle" => \A i \in 1..Len(codec.token) : IsB64Char(codec.token[i])

PadCount(t) == Cardinality({ i \in 1..Len(t) : t[i] = PadChar })

\* C6 amended: a generated token is URL-safe base64 text padded with '=' to
\* a multiple of four characters: the padding stands at the end only, and
\* is absent exactly when the length of the JSON record is a multiple of 3
C6_TokenUrlSafePadded ==
    codec.phase # "idle" =>
        LET t == codec.token
            n == Len(t)
            k == PadCount(t)
        IN  /\ n % 4 = 0
            /\ k = (3 - (Len(codec.record) % 3)) % 3
            /\ \A i \in 1..n : IF i <= n - k THEN IsB64Char(t[i]) ELSE t[i] = PadChar

C6_Witness ==
    /\ codec.phase # "idle"
    /\ PadCount(codec.token) = 2
    /\ \E i \in 1..Len(codec.token) : codec.token[i] = 45


(***************************************************************************)
(* Resource type resolution: Client.ResolveResourceType                    *)
(***************************************************************************)
\* metav1.APIResource, the fields the resolver reads
APIResource(name, singularName, kind, shortNames) ==
    [Name |-> name, SingularName |-> singularName, Kind |-> kind,
     ShortNames |-> shortNames]

\* metav1.APIResourceList
APIResourceList(groupVersion, resources) ==
    [GroupVersion |-> groupVersion, APIResources |-> resources]

\* strings.Count(s, "/")
SlashCount(s) == Cardinality({ i \in 1..Len(s) : s[i] = 47 })

\* strings.Index(s, "/"), 0-based, for a string that holds a slash
IndexSlash(s) == (CHOOSE i \in 1..Len(s) :
                     s[i] = 47 /\ \A j \in 1..(i - 1) : s[j] # 47) - 1

\* the split of a GroupVersion string at its only slash, at 0-based index i
SplitGroupVersion(gv, i) ==
    [ok |-> TRUE, Group |-> Slice(gv, 0, i), Version |-> Slice(gv, i + 1, Len(gv))]

\* schema.ParseGroupVersion
ParseGroupVersion(gv) ==
    IF Len(gv) = 0 \/ gv = <<47>>
    THEN [ok |-> TRUE, Group |-> EmptyStr, Version |-> EmptyStr]
    ELSE IF SlashCount(gv) = 0
    THEN [ok |-> TRUE, Group |-> EmptyStr, Version |-> gv]
    ELSE IF SlashCount(gv) = 1
    THEN SplitGroupVersion(gv, IndexSlash(gv))
    ELSE [ok |-> FALSE, Group |-> EmptyStr, Version |-> EmptyStr]

\* schema.GroupVersionResource
GroupVersionResource(group, version, resource) ==
    [Group |-> group, Version |-> version, Resource |-> resource]

ZeroGVR == GroupVersionResource(EmptyStr, EmptyStr, EmptyStr)

\* resourceInfo{gvr: gv.WithResource(resource.Name), apiVersion: list.GroupVersion}
ResourceInfo(gv, resource, groupVersion) ==
    [gvr |-> GroupVersionResource(gv.Group, gv.Version, resource.Name),
     apiVersion |-> groupVersion]

\* nameToResource is kept as the sequence of its (key, info) pairs, one pair
\* per key; allResourceNames is the slice of the collected names
EmptyRegistry == [nameToResource |-> << >>, allResourceNames |-> << >>]

HasKey(m, k) == \E i \in 1..Len(m) : m[i].key = k

KeyIndex(m, k) == CHOOSE i \in 1..Len(m) : m[i].key = k

\* nameToResource[k], for a key the map holds
MapGet(m, k) == m[KeyIndex(m, k)].info

\* variant: every later carrier of a name replaces the registered one
MapPut_lastWins(m, k, info, apiVersion) ==
    IF ~HasKey(m, k)
    THEN Append(m, [key |-> k, info |-> info])
    ELSE [m EXCEPT ![KeyIndex(m, k)] = [key |-> k, info |-> info]]

\* the guarded store: a new key, or an entry of another version replaced by
\* one of the version asked for
MapPut(m, k, info, apiVersion) ==
    IF ~HasKey(m, k)
    THEN Append(m, [key |-> k, info |-> info])
    ELSE IF /\ apiVersion # EmptyStr
            /\ MapGet(m, k).apiVersion # apiVersion
            /\ info.apiVersion = apiVersion
    THEN [m EXCEPT ![KeyIndex(m, k)] = [key |-> k, info |-> info]]
    ELSE m

\* the body of the loop over names
RegisterName(acc, name, info, apiVersion) ==
    IF name = EmptyStr THEN acc
    ELSE [nameToResource |->
              MapPut(acc.nameToResource, ToLower(name), info, apiVersion),
          allResourceNames |->
              IF apiVersion = EmptyStr \/ info.apiVersion = apiVersion
              THEN Append(acc.allResourceNames, name)
              ELSE acc.allResourceNames]

\* the loop over names.  An operator argument is handed on unevaluated; the
\* second test, never true, has the registry left by an iteration evaluated
\* before the next one starts, as the loop does.
RECURSIVE RegisterNames(_, _, _, _)
RegisterNames(acc, names, info, apiVersion) ==
    IF names = << >> \/ Len(acc.allResourceNames) < 0 THEN acc
    ELSE RegisterNames(RegisterName(acc, Head(names), info, apiVersion),
                       Tail(names), info, apiVersion)

\* names := []string{Name, SingularName, Kind}; append(names, ShortNames...)
ResourceNames(resource) ==
    <<resource.Name, resource.SingularName, resource.Kind>> \o resource.ShortNames

\* the body of the loop over list.APIResources
RegisterResource(acc, gv, groupVersion, resource, apiVersion) ==
    IF ContainsSlash(resource.Name) THEN acc
    ELSE RegisterNames(acc, ResourceNames(resource),
                       ResourceInfo(gv, resource, groupVersion), apiVersion)

\* the loop over list.APIResources, evaluated as the loop over names is
RECURSIVE RegisterResources(_, _, _, _, _)
RegisterResources(acc, gv, groupVersion, resources, apiVersion) ==
    IF resources = << >> \/ Len(acc.allResourceNames) < 0 THEN acc
    ELSE RegisterResources(
             RegisterResource(acc, gv, groupVersion, Head(resources), apiVersion),
             gv, groupVersion, Tail(resources), apiVersion)

\* a list that passed the version filter: skipped when its GroupVersion
\* does not parse
RegisterParsed(acc, list, gv, apiVersion) ==
    IF ~gv.ok THEN acc
    ELSE RegisterResources(acc, gv, list.GroupVersion, list.APIResources, apiVersion)

\* variant: the hint is compared with the version part of the list only
RegisterList_byVersion(acc, list, apiVersion) ==
    IF apiVersion # EmptyStr /\ ParseGroupVersion(list.GroupVersion).Version # apiVersion
    THEN acc
    ELSE RegisterParsed(acc, list, ParseGroupVersion(list.GroupVersion), apiVersion)

\* the body of the loop over lists
RegisterList(acc, list, apiVersion) ==
    IF apiVersion # EmptyStr /\ list.GroupVersion # apiVersion THEN acc
    ELSE RegisterParsed(acc, list, ParseGroupVersion(list.GroupVersion), apiVersion)

\* the loop over lists, evaluated as the loop over names is
RECURSIVE RegisterLists(_, _, _)
RegisterLists(acc, lists, apiVersion) ==
    IF lists = << >> \/ Len(acc.allResourceNames) < 0 THEN acc
    ELSE RegisterLists(RegisterList(acc, Head(lists), apiVersion),
                       Tail(lists), apiVersion)

\* the number of names the not-found error lists
MaxListedNames == 10

\* uniqueNames: the keys of the de-duplicating map
UniqueNames(allResourceNames) ==
    { allResourceNames[i] : i \in 1..Len(allResourceNames) }

LeastString(S) == CHOOSE x \in S : \A y \in S : x = y \/ StrLess(x, y)

\* sort.Strings over the keys of uniqueNames: whatever the order in which
\* the map yields them, the sorted slice is the same
RECURSIVE SortInto(_, _)
SortNext(sorted, S, least) == SortInto(Append(sorted, least), S \ {least})
SortInto(sorted, S) == IF S = {} THEN sorted ELSE SortNext(sorted, S, LeastString(S))
SortStrings(S) == SortInto(<< >>, S)

ResolveOk(gvr) == [status |-> "ok", gvr |-> gvr]

\* "failed to discover resources: %w"
DiscoveryFailed == [status |-> "discovery_failed", gvr |-> ZeroGVR]

\* the not-found error: "resource type %q not found", then " in API version
\* %q" or " in any available API version", then, when names were collected,
\* ". Available resource types include: %v" and, past ten names,
\* " (and %d more)"
NotFoundError(resourceType, apiVersion, listed, names, hasMore, more) ==
    [status |-> "not_found", gvr |-> ZeroGVR,
     resourceType |-> resourceType,
     inAnyVersion |-> apiVersion = EmptyStr,
     apiVersion |-> apiVersion,
     listed |-> listed, names |-> names, hasMore |-> hasMore, more |-> more]

\* variant: the omitted count is taken from the collected names, duplicates
\* included
NotFoundSorted_countAll(resourceType, apiVersion, allResourceNames, sortedNames) ==
    IF Len(sortedNames) > MaxListedNames
    THEN NotFoundError(resourceType, apiVersion, TRUE,
                       Slice(sortedNames, 0, MaxListedNames), TRUE,
                       Len(allResourceNames) - MaxListedNames)
    ELSE NotFoundError(resourceType, apiVersion, TRUE, sortedNames, FALSE, 0)

NotFoundSorted(resourceType, apiVersion, allResourceNames, sortedNames) ==
    IF Len(sortedNames) > MaxListedNames
    THEN NotFoundError(resourceType, apiVersion, TRUE,
                       Slice(sortedNames, 0, MaxListedNames), TRUE,
                       Cardinality(UniqueNames(allResourceNames)) - MaxListedNames)
    ELSE NotFoundError(resourceType, apiVersion, TRUE, sortedNames, FALSE, 0)

NotFound(resourceType, apiVersion, allResourceNames) ==
    IF Len(allResourceNames) > 0
    THEN NotFoundSorted(resourceType, apiVersion, allResourceNames,
                        SortStrings(UniqueNames(allResourceNames)))
    ELSE NotFoundError(resourceType, apiVersion, FALSE, << >>, FALSE, 0)

\* variant: the requested name is looked up as written
LookupResult_caseSensitive(registry, resourceType, apiVersion) ==
    IF HasKey(registry.nameToResource, resourceType)
    THEN ResolveOk(MapGet(registry.nameToResource, resourceType).gvr)
    ELSE NotFound(resourceType, apiVersion, registry.allResourceNames)

\* the lookup of the lower-cased name and what follows it
LookupResult(registry, resourceType, apiVersion) ==
    IF HasKey(registry.nameToResource, ToLower(resourceType))
    THEN ResolveOk(MapGet(registry.nameToResource, ToLower(resourceType)).gvr)
    ELSE NotFound(resourceType, apiVersion, registry.allResourceNames)

\* lists, err: what ServerPreferredResources returned
ResolveResourceType(lists, err, resourceType, apiVersion) ==
    IF err THEN DiscoveryFailed
    ELSE LookupResult(RegisterLists(EmptyRegistry, lists, apiVersion),
                      resourceType, apiVersion)

(***************************************************************************)
(* Discovery catalogs and resolution requests                              *)
(***************************************************************************)
MaxLists == 3

\* v1: pods/log (-, Pod, -), pods (pod, Pod, po), services (service, Service, svc)
list_core ==
    APIResourceList(<<118,49>>, <<
        APIResource(<<112,111,100,115,47,108,111,103>>, EmptyStr, <<80,111,100>>,
                    << >>),
        APIResource(<<112,111,100,115>>, <<112,111,100>>, <<80,111,100>>,
                    <<<<112,111>>>>),
        APIResource(<<115,101,114,118,105,99,101,115>>, <<115,101,114,118,105,99,101>>, <<83,101,114,118,105,99,101>>,
                    <<<<115,118,99>>>>) >>)

\* apps/v1: deployments (deployment, Deployment, deploy)
list_apps ==
    APIResourceList(<<97,112,112,115,47,118,49>>, <<
        APIResource(<<100,101,112,108,111,121,109,101,110,116,115>>, <<100,101,112,108,111,121,109,101,110,116>>, <<68,101,112,108,111,121,109,101,110,116>>,
                    <<<<100,101,112,108,111,121>>>>) >>)

\* metrics.k8s.io/v1beta1: pods (-, PodMetrics, -), nodes (-, NodeMetrics, -)
list_metrics ==
    APIResourceList(<<109,101,116,114,105,99,115,46,107,56,115,46,105,111,47,118,49,98,101,116,97,49>>, <<
        APIResource(<<112,111,100,115>>, EmptyStr, <<80,111,100,77,101,116,114,105,99,115>>,
                    << >>),
        APIResource(<<110,111,100,101,115>>, EmptyStr, <<78,111,100,101,77,101,116,114,105,99,115>>,
                    << >>) >>)

\* example.com/v1: podsets (podset, PodSet, po ps), pipelines (pipeline, Pipeline, ps)
list_example ==
    APIResourceList(<<101,120,97,109,112,108,101,46,99,111,109,47,118,49>>, <<
        APIResource(<<112,111,100,115,101,116,115>>, <<112,111,100,115,101,116>>, <<80,111,100,83,101,116>>,
                    <<<<112,111>>, <<112,115>>>>),
        APIResource(<<112,105,112,101,108,105,110,101,115>>, <<112,105,112,101,108,105,110,101>>, <<80,105,112,101,108,105,110,101>>,
                    <<<<112,115>>>>) >>)

\* x/y/z: widgets (widget, Widget, po)
list_malformed ==
    APIResourceList(<<120,47,121,47,122>>, <<
        APIResource(<<119,105,100,103,101,116,115>>, <<119,105,100,103,101,116>>, <<87,105,100,103,101,116>>,
                    <<<<112,111>>>>) >>)

ListUniverse == <<list_core, list_apps, list_metrics, list_example, list_malformed>>

gv_core == <<118,49>>                                       \* v1
gv_apps == <<97,112,112,115,47,118,49>>                     \* apps/v1
gv_metrics == <<109,101,116,114,105,99,115,46,107,56,115,46,105,111,47,118,49,98,101,116,97,49>>\* metrics.k8s.io/v1beta1
gv_example == <<101,120,97,109,112,108,101,46,99,111,109,47,118,49>>\* example.com/v1
gv_malformed == <<120,47,121,47,122>>                       \* x/y/z
gv_absent == <<118,50>>                                     \* v2
al_pods == <<112,111,100,115>>                              \* pods
al_Pod == <<80,111,100>>                                    \* Pod
al_po == <<112,111>>                                        \* po
al_svc == <<115,118,99>>                                    \* svc
al_PodMetrics == <<80,111,100,77,101,116,114,105,99,115>>   \* PodMetrics
al_ps == <<112,115>>                                        \* ps
al_Deployment == <<68,101,112,108,111,121,109,101,110,116>> \* Deployment
al_widgets == <<119,105,100,103,101,116,115>>               \* widgets
al_nope == <<110,111,112,101>>                              \* nope
al_podslog == <<112,111,100,115,47,108,111,103>>            \* pods/log
al_podsets == <<112,111,100,115,101,116,115>>               \* podsets
al_pipelines == <<112,105,112,101,108,105,110,101,115>>     \* pipelines

\* strings.ToUpper on ASCII text
ToUpper(s) == [i \in 1..Len(s) |-> IF s[i] \in 97..122 THEN s[i] - 32 ELSE s[i]]

AliasesAsListed == {al_pods, al_Pod, al_po, al_svc, al_PodMetrics, al_ps,
                    al_Deployment, al_widgets}

RequestAliases ==
    AliasesAsListed
      \cup { ToLower(a) : a \in AliasesAsListed }
      \cup { ToUpper(a) : a \in AliasesAsListed }
      \cup { EmptyStr, al_nope, al_podslog }

RequestVersions == {EmptyStr, gv_core, gv_apps, gv_metrics, gv_example,
                    gv_malformed, gv_absent}

Catalogs ==
    { [i \in 1..Len(order) |-> ListUniverse[order[i]]] :
        order \in InjectiveSeqs(1..Len(ListUniverse), MaxLists) }

InitResolve ==
    /\ MetricsIdle
    /\ CodecIdle
    /\ ToolsIdle
    /\ BootIdle
    /\ catalog \in Catalogs
    /\ discoveryErr \in (IF Len(catalog) <= 1 THEN BOOLEAN ELSE {FALSE})
    /\ resolveReq = [resourceType |-> EmptyStr, apiVersion |-> EmptyStr]
    /\ resolveRes = [status |-> "none"]
    /\ connectivity = [status |-> "none"]

\* one call of ResolveResourceType; the catalog is fetched by the call
CallResolveResourceType ==
    /\ resolveRes.status = "none"
    /\ \E resourceType \in RequestAliases, apiVersion \in RequestVersions :
          /\ resolveReq' = [resourceType |-> resourceType, apiVersion |-> apiVersion]
          /\ resolveRes' = ResolveResourceType(catalog, discoveryErr,
                                               resourceType, apiVersion)
    /\ UNCHANGED <<catalog, discoveryErr, connectivity,
                   metricsVars, codec, toolVars, bootVars>>

\* variant: any discovery error fails the connectivity check
TestConnectivity_strict(versionOK, lists, err, namespacesOK) ==
    IF ~versionOK THEN [status |-> "version_failed"]
    ELSE IF err THEN [status |-> "discovery_failed"]
    ELSE IF ~namespacesOK THEN [status |-> "namespaces_failed"]
    ELSE [status |-> "ok"]

\* the three checks of TestConnectivity, in order: the server version, the
\* discovery (an error is fatal only when no list came back) and the
\* listing of one namespace
TestConnectivity(versionOK, lists, err, namespacesOK) ==
    IF ~versionOK THEN [status |-> "version_failed"]
    ELSE IF err /\ Len(lists) = 0 THEN [status |-> "discovery_failed"]
    ELSE IF ~namespacesOK THEN [status |-> "namespaces_failed"]
    ELSE [status |-> "ok"]

\* one call of TestConnectivity against the same cluster: the discovery
\* answers it as it answers ResolveResourceType
CallTestConnectivity ==
    /\ connectivity.status = "none"
    /\ \E versionOK \in BOOLEAN, namespacesOK \in BOOLEAN :
          connectivity' =
              [versionOK |-> versionOK, namespacesOK |-> namespacesOK]
                @@ TestConnectivity(versionOK, catalog, discoveryErr, namespacesOK)
    /\ UNCHANGED <<catalog, discoveryErr, resolveReq, resolveRes,
                   metricsVars, codec, toolVars, bootVars>>

NextResolve == CallResolveResourceType \/ CallTestConnectivity

SpecResolve == InitResolve /\ [][NextResolve]_vars


(***************************************************************************)
(* Resolution properties.  They are stated over the catalog itself, not    *)
(* over the registry the resolver builds: an entry is registrable when it  *)
(* is not a subresource and the GroupVersion of its list parses; it is in  *)
(* scope of a version hint when the hint is empty or equals the            *)
(* GroupVersion of its list.                                               *)
(***************************************************************************)
RECURSIVE CatalogEntries(_)
ListEntries(list) ==
    [i \in 1..Len(list.APIResources) |->
        [GroupVersion |-> list.GroupVersion, resource |-> list.APIResources[i]]]
CatalogEntries(lists) ==
    IF lists = << >> THEN << >>
    ELSE ListEntries(Head(lists)) \o CatalogEntries(Tail(lists))

Registrable(e) ==
    /\ ~ContainsSlash(e.resource.Name)
    /\ SlashCount(e.GroupVersion) <= 1

InScope(e, apiVersion) == apiVersion = EmptyStr \/ e.GroupVersion = apiVersion

\* the names of an entry that can serve as aliases
AliasNames(e) ==
    { n \in {e.resource.Name, e.resource.SingularName, e.resource.Kind}
              \cup { e.resource.ShortNames[i] : i \in 1..Len(e.resource.ShortNames) } :
        n # EmptyStr }

SameFold(a, b) ==
    /\ Len(a) = Len(b)
    /\ \A i \in 1..Len(a) :
          (IF a[i] \in 65..90 THEN a[i] + 32 ELSE a[i])
            = (IF b[i] \in 65..90 THEN b[i] + 32 ELSE b[i])

Carries(e, alias) == \E n \in AliasNames(e) : SameFold(n, alias)

\* positions, in catalog iteration order, of the registrable entries in
\* scope that carry the alias
Carriers(entries, alias, apiVersion) ==
    { i \in 1..Len(entries) :
        /\ Registrable(entries[i])
        /\ InScope(entries[i], apiVersion)
        /\ Carries(entries[i], alias) }

FirstOf(S) == CHOOSE i \in S : \A j \in S : i <= j

\* group, version and plural name of an entry
IdentifierOf(e) ==
    GroupVersionResource(ParseGroupVersion(e.GroupVersion).Group,
                         ParseGroupVersion(e.GroupVersion).Version,
                         e.resource.Name)

Resolved == resolveRes.status # "none" /\ ~discoveryErr

ReturnsFirst(entries, carriers) ==
    /\ resolveRes.status = "ok"
    /\ resolveRes.gvr = IdentifierOf(entries[FirstOf(carriers)])

HasUpper(s) == \E i \in 1..Len(s) : s[i] \in 65..90

\* C7: an alias carried by a registrable entry, written in any letter case
\* and resolved with an empty apiVersion, yields the group, version and
\* plural name of the first such entry of the catalog
C7_AliasResolvesAnyCase ==
    (/\ Resolved
     /\ resolveReq.apiVersion = EmptyStr
     /\ Carriers(CatalogEntries(catalog), resolveReq.resourceType, EmptyStr) # {})
       => ReturnsFirst(CatalogEntries(catalog),
                       Carriers(CatalogEntries(catalog), resolveReq.resourceType, EmptyStr))

\* "PODMETRICS" resolved to pods of metrics.k8s.io/v1beta1, whose kind is
\* PodMetrics
C7_Witness ==
    /\ Resolved
    /\ resolveReq.apiVersion = EmptyStr
    /\ resolveReq.resourceType = ToUpper(al_PodMetrics)
    /\ resolveRes.status = "ok"
    /\ resolveRes.gvr.Resource = al_pods
    /\ resolveRes.gvr.Version # gv_core

\* the registrable carriers of the requested alias under a GroupVersion
\* other than the one asked for
CarriersElsewhere(entries, alias, apiVersion) ==
    { i \in Carriers(entries, alias, EmptyStr) : entries[i].GroupVersion # apiVersion }

\* C8: when an alias has a registrable carrier under one GroupVersion and
\* one under another, resolving it with the second GroupVersion as the hint
\* yields the carrier of that GroupVersion (its first one), wherever the two
\* lists stand in the catalog
C8_VersionHintWins ==
    (/\ Resolved
     /\ resolveReq.apiVersion # EmptyStr
     /\ Carriers(CatalogEntries(catalog), resolveReq.resourceType,
                 resolveReq.apiVersion) # {}
     /\ CarriersElsewhere(CatalogEntries(catalog), resolveReq.resourceType,
                          resolveReq.apiVersion) # {})
       => ReturnsFirst(CatalogEntries(catalog),
                       Carriers(CatalogEntries(catalog), resolveReq.resourceType,
                                resolveReq.apiVersion))

\* "po" asked of example.com/v1 while the pods of v1 come first in the
\* catalog: podsets is returned
C8_Witness ==
    /\ Resolved
    /\ resolveReq.resourceType = al_po
    /\ resolveReq.apiVersion = gv_example
    /\ Len(catalog) >= 2
    /\ catalog[1] = list_core
    /\ resolveRes.status = "ok"
    /\ resolveRes.gvr.Resource = al_podsets

\* C9: when several registrable entries carry the lower-cased alias and no
\* apiVersion is given, the first of them in catalog iteration order is
\* returned; the result is a function of the catalog and the inputs
C9_FirstSeenWins ==
    (/\ Resolved
     /\ resolveReq.apiVersion = EmptyStr
     /\ Cardinality(Carriers(CatalogEntries(catalog),
                             ToLower(resolveReq.resourceType), EmptyStr)) >= 2)
       => /\ resolveRes.status = "ok"
          /\ \E i \in Carriers(CatalogEntries(catalog),
                               ToLower(resolveReq.resourceType), EmptyStr) :
                /\ \A j \in Carriers(CatalogEntries(catalog),
                                     ToLower(resolveReq.resourceType), EmptyStr) : i <= j
                /\ resolveRes.gvr.Resource = CatalogEntries(catalog)[i].resource.Name
                /\ resolveRes.gvr.Version =
                       ParseGroupVersion(CatalogEntries(catalog)[i].GroupVersion).Version
                /\ resolveRes.gvr.Group =
                       ParseGroupVersion(CatalogEntries(catalog)[i].GroupVersion).Group

\* "pods" with the metrics list ahead of the core list: the metrics pods
\* are returned, not the core pods
C9_Witness ==
    /\ Resolved
    /\ resolveReq.apiVersion = EmptyStr
    /\ resolveReq.resourceType = al_pods
    /\ \E i, j \in 1..Len(catalog) :
          i < j /\ catalog[i] = list_metrics /\ catalog[j] = list_core
    /\ resolveRes.status = "ok"
    /\ resolveRes.gvr.Version # gv_core

\* the candidate names: the alias names of the registrable entries in scope
Candidates(entries, apiVersion) ==
    UNION { AliasNames(entries[i]) :
              i \in { k \in 1..Len(entries) :
                        Registrable(entries[k]) /\ InScope(entries[k], apiVersion) } }

\* names is the list of the Min(|C|, 10) least strings of C, in increasing
\* order
LeastSorted(names, C) ==
    /\ Len(names) = Min(Cardinality(C), MaxListedNames)
    /\ \A i \in 1..Len(names) : names[i] \in C
    /\ \A i \in 1..(Len(names) - 1) : StrLess(names[i], names[i + 1])
    /\ \A c \in C : (\E i \in 1..Len(names) : names[i] = c)
                      \/ (\A i \in 1..Len(names) : StrLess(names[i], c))

NotFoundAsSpecified(C) ==
    /\ resolveRes.status = "not_found"
    /\ resolveRes.resourceType = resolveReq.resourceType
    /\ resolveRes.inAnyVersion = (resolveReq.apiVersion = EmptyStr)
    /\ resolveReq.apiVersion # EmptyStr => resolveRes.apiVersion = resolveReq.apiVersion
    /\ LeastSorted(resolveRes.names, C)
    /\ resolveRes.listed = (C # {})
    /\ resolveRes.hasMore = (Cardinality(C) > MaxListedNames)
    /\ resolveRes.hasMore => resolveRes.more = Cardinality(C) - MaxListedNames

\* C10: an alias that no registrable entry in scope carries ends in the
\* not-found error, which names the alias and the apiVersion given, lists
\* the first 10 of the sorted distinct candidate names and, past 10
\* candidates, the number of distinct candidates left out
C10_NotFoundListsCandidates ==
    (/\ Resolved
     /\ Carriers(CatalogEntries(catalog), resolveReq.resourceType,
                 resolveReq.apiVersion) = {})
       => NotFoundAsSpecified(Candidates(CatalogEntries(catalog), resolveReq.apiVersion))

\* more than ten distinct candidates, one of them ("pods") collected twice
C10_Witness ==
    /\ Resolved
    /\ resolveRes.status = "not_found"
    /\ resolveReq.resourceType = al_nope
    /\ resolveRes.hasMore
    /\ Len(resolveRes.names) = MaxListedNames
    /\ \E i, j \in 1..Len(catalog) :
          catalog[i] = list_core /\ catalog[j] = list_metrics

\* C11: a call made while the catalog is empty or cannot be obtained ends
\* with the "failed to discover resources" error, never with the not-found
\* error
C11_EmptyCatalogIsUnavailable ==
    (/\ resolveRes.status # "none"
     /\ (discoveryErr \/ catalog = << >>))
       => resolveRes.status = "discovery_failed"

(***************************************************************************)
(* Log filtering: package logfilter                                        *)
(***************************************************************************)
NewLine == 10

\* strings.Split(s, "\n"): at least one element, also for the empty string
RECURSIVE SplitFrom(_, _, _)
SplitFrom(s, start, i) ==
    IF i > Len(s) THEN << SubSeq(s, start, Len(s)) >>
    ELSE IF s[i] = NewLine
    THEN << SubSeq(s, start, i - 1) >> \o SplitFrom(s, i + 1, i + 1)
    ELSE SplitFrom(s, start, i + 1)

SplitLines(s) == SplitFrom(s, 1, 1)

\* strings.Join(elems, "\n")
RECURSIVE JoinLines(_)
JoinLines(elems) ==
    IF elems = << >> THEN EmptyStr
    ELSE IF Len(elems) = 1 THEN elems[1]
    ELSE elems[1] \o <<NewLine>> \o JoinLines(Tail(elems))

\* strings.Contains(s, substr)
Contains(s, substr) ==
    \E i \in 0..(Len(s) - Len(substr)) : SubSeq(s, i + 1, i + Len(substr)) = substr

\* regexp.Compile over patterns written with literals, '.', '^', '$', '*'
\* and '(': the compiled pattern is the sequence of its items, each a literal,
\* any character, begin of text or end of text, starred or not.  A pattern
\* of this alphabet holds no ')', so every '(' misses its closing one.
ch_dot == 46
ch_caret == 94
ch_dollar == 36
ch_star == 42
ch_lparen == 40

RegexItem(c) ==
    [kind |-> IF c = ch_dot THEN "any"
              ELSE IF c = ch_caret THEN "bol"
              ELSE IF c = ch_dollar THEN "eol"
              ELSE "lit",
     ch |-> c, star |-> FALSE]

CompileError(msg) == [ok |-> FALSE, err |-> msg, items |-> << >>]

Starred(items) == [items EXCEPT ![Len(items)].star = TRUE]

\* items: the pattern parsed so far; i: position of the next character
RECURSIVE CompileFrom(_, _, _)
CompileStar(pattern, i, items) ==
    IF items = << >> THEN CompileError("missing argument to repetition operator")
    ELSE IF items[Len(items)].star THEN CompileError("invalid nested repetition operator")
    ELSE CompileFrom(pattern, i + 1, Starred(items))
CompileFrom(pattern, i, items) ==
    IF i > Len(pattern) THEN [ok |-> TRUE, err |-> "", items |-> items]
    ELSE IF pattern[i] = ch_lparen THEN CompileError("missing closing )")
    ELSE IF pattern[i] = ch_star THEN CompileStar(pattern, i, items)
    ELSE CompileFrom(pattern, i + 1, Append(items, RegexItem(pattern[i])))

Compile(pattern) == CompileFrom(pattern, 1, << >>)

\* one character of the line, at 0-based position pos, against an item
ItemTakes(item, line, pos) ==
    /\ pos < Len(line)
    /\ \/ item.kind = "any" /\ line[pos + 1] # NewLine
       \/ item.kind = "lit" /\ line[pos + 1] = item.ch

ItemHolds(item, line, pos) ==
    \/ item.kind = "bol" /\ pos = 0
    \/ item.kind = "eol" /\ pos = Len(line)

\* the items from the k-th on match the line at position pos
RECURSIVE MatchHere(_, _, _, _)
MatchHere(items, k, line, pos) ==
    IF k > Len(items) THEN TRUE
    ELSE IF items[k].kind \in {"bol", "eol"}
    THEN \/ items[k].star /\ MatchHere(items, k + 1, line, pos)
         \/ ItemHolds(items[k], line, pos) /\ MatchHere(items, k + 1, line, pos)
    ELSE IF items[k].star
    THEN \/ MatchHere(items, k + 1, line, pos)
         \/ ItemTakes(items[k], line, pos) /\ MatchHere(items, k, line, pos + 1)
    ELSE ItemTakes(items[k], line, pos) /\ MatchHere(items, k + 1, line, pos + 1)

\* (*Regexp).MatchString: a match anywhere in the line
MatchString(items, line) == \E pos \in 0..Len(line) : MatchHere(items, 1, line, pos)

\* *FilterOptions; opts == nil is the record with isNil
FilterOptions(grepInclude, grepExclude, useRegex) ==
    [isNil |-> FALSE, GrepInclude |-> grepInclude, GrepExclude |-> grepExclude,
     UseRegex |-> useRegex]

NilOptions ==
    [isNil |-> TRUE, GrepInclude |-> << >>, GrepExclude |-> << >>, UseRegex |-> FALSE]

\* "invalid include regex pattern %q: %w" / "invalid exclude regex pattern %q: %w"
NoError == [isErr |-> FALSE, list |-> "", pattern |-> EmptyStr, cause |-> ""]

\* the %q verb, for printable ASCII text: the text between double quotes,
\* with a backslash before a double quote and before a backslash
RECURSIVE QuoteBody(_)
QuoteBody(s) ==
    IF s = EmptyStr THEN EmptyStr
    ELSE IF s[1] \in {34, 92} THEN <<92, s[1]>> \o QuoteBody(Tail(s))
    ELSE <<s[1]>> \o QuoteBody(Tail(s))

Quoted(s) == <<34>> \o QuoteBody(s) \o <<34>>

PatternError(list, pattern, cause) ==
    [isErr |-> TRUE, list |-> list, pattern |-> Quoted(pattern), cause |-> cause]

\* the loop that compiles the patterns of one list, from the i-th on:
\* the first pattern that fails ends it
RECURSIVE CompileList(_, _, _, _)
CompileNext(patterns, list, i, compiled, re) ==
    IF ~re.ok
    THEN [err |-> PatternError(list, patterns[i], re.err), compiled |-> << >>]
    ELSE CompileList(patterns, list, i + 1, Append(compiled, re.items))
CompileList(patterns, list, i, compiled) ==
    IF i > Len(patterns) THEN [err |-> NoError, compiled |-> compiled]
    ELSE CompileNext(patterns, list, i, compiled, Compile(patterns[i]))

\* variant: a line has to match every pattern of the list
MatchesAny_all(line, patterns, compiled, useRegex) ==
    IF useRegex
    THEN \A k \in 1..Len(compiled) : MatchString(compiled[k], line)
    ELSE \A k \in 1..Len(patterns) : Contains(line, patterns[k])

\* the loops that set matched / excluded: some pattern of the list matches
MatchesAny(line, patterns, compiled, useRegex) ==
    IF useRegex
    THEN \E k \in 1..Len(compiled) : MatchString(compiled[k], line)
    ELSE \E k \in 1..Len(patterns) : Contains(line, patterns[k])

\* the loop over lines, from the i-th on
RECURSIVE FilterLines(_, _, _, _, _, _)
FilterLines(filteredLines, lines, i, opts, includePatterns, excludePatterns) ==
    IF i > Len(lines) THEN filteredLines
    ELSE IF lines[i] = EmptyStr /\ Len(filteredLines) > 0
    THEN FilterLines(filteredLines, lines, i + 1, opts, includePatterns, excludePatterns)
    ELSE IF /\ Len(opts.GrepInclude) > 0
            /\ ~MatchesAny(lines[i], opts.GrepInclude, includePatterns, opts.UseRegex)
    THEN FilterLines(filteredLines, lines, i + 1, opts, includePatterns, excludePatterns)
    ELSE IF /\ Len(opts.GrepExclude) > 0
            /\ MatchesAny(lines[i], opts.GrepExclude, excludePatterns, opts.UseRegex)
    THEN FilterLines(filteredLines, lines, i + 1, opts, includePatterns, excludePatterns)
    ELSE FilterLines(Append(filteredLines, lines[i]), lines, i + 1, opts,
                     includePatterns, excludePatterns)

FilterResult(err, out) == [err |-> err, out |-> out]

\* inc, exc: the outcome of compiling the two lists
FilterCompiled(content, opts, inc, exc) ==
    IF inc.err.isErr THEN FilterResult(inc.err, EmptyStr)
    ELSE IF exc.err.isErr THEN FilterResult(exc.err, EmptyStr)
    ELSE FilterResult(NoError,
             JoinLines(FilterLines(<< >>, SplitLines(content), 1, opts,
                                   inc.compiled, exc.compiled)))

\* variant: the joined result is ended with a newline
FilterLogs_newlineTerminated(content, opts) ==
    IF opts.isNil THEN FilterResult(NoError, content)
    ELSE IF opts.UseRegex
    THEN LET r == FilterCompiled(content, opts,
                      CompileList(opts.GrepInclude, "include", 1, << >>),
                      CompileList(opts.GrepExclude, "exclude", 1, << >>))
         IN  IF r.err.isErr THEN r ELSE FilterResult(NoError, r.out \o <<NewLine>>)
    ELSE FilterResult(NoError,
             JoinLines(FilterLines(<< >>, SplitLines(content), 1, opts, << >>, << >>))
               \o <<NewLine>>)

FilterLogs(content, opts) ==
    IF opts.isNil THEN FilterResult(NoError, content)
    ELSE IF opts.UseRegex
    THEN FilterCompiled(content, opts,
                        CompileList(opts.GrepInclude, "include", 1, << >>),
                        CompileList(opts.GrepExclude, "exclude", 1, << >>))
    ELSE FilterResult(NoError,
             JoinLines(FilterLines(<< >>, SplitLines(content), 1, opts, << >>, << >>)))

\* variant: the empty result is counted as the one element Split gives
CountOf_splitOnly(filtered) ==
    [err |-> filtered.err,
     count |-> IF filtered.err.isErr THEN 0 ELSE Len(SplitLines(filtered.out))]

\* filtered: the outcome of FilterLogs
CountOf(filtered) ==
    [err |-> filtered.err,
     count |-> IF filtered.err.isErr THEN 0
               ELSE IF filtered.out = EmptyStr THEN 0
               ELSE Len(SplitLines(filtered.out))]

CountMatchingLines(content, opts) == CountOf(FilterLogs(content, opts))

\* variant: the exclude list is tried first
ValidateLists_excludeFirst(inc, exc) ==
    IF exc.err.isErr THEN exc.err
    ELSE IF inc.err.isErr THEN inc.err
    ELSE NoError

\* inc, exc: the outcome of compiling the two lists
ValidateLists(inc, exc) ==
    IF inc.err.isErr THEN inc.err
    ELSE IF exc.err.isErr THEN exc.err
    ELSE NoError

ValidateFilterOptions(opts) ==
    IF opts.isNil THEN NoError
    ELSE IF opts.UseRegex
    THEN ValidateLists(CompileList(opts.GrepInclude, "include", 1, << >>),
                       CompileList(opts.GrepExclude, "exclude", 1, << >>))
    ELSE NoError

(***************************************************************************)
(* Since times: ParseSinceTime, parseDuration, and the parts of            *)
(* time.ParseDuration and time.Parse they rest on                          *)
(***************************************************************************)
ch_d == 100
ch_h == 104
ch_m == 109
ch_s == 115
ch_point == 46
ch_comma == 44
ch_minus == 45
ch_plus == 43
ch_colon == 58
ch_T == 84
ch_Z == 90
ch_space == 32

\* a time.Duration as sign, whole seconds and the milliseconds beyond them
Duration(neg, sec, ms) == [neg |-> neg, sec |-> sec, ms |-> ms]

DurationError == [ok |-> FALSE, d |-> Duration(FALSE, 0, 0)]
DurationOk(d) == [ok |-> TRUE, d |-> d]

\* unitMap of package time, in milliseconds; 0 for an unknown unit
UnitMillis(u) ==
    IF u = <<ch_h>> THEN 3600000
    ELSE IF u = <<ch_m>> THEN 60000
    ELSE IF u = <<ch_s>> THEN 1000
    ELSE IF u = <<ch_m, ch_s>> THEN 1
    ELSE 0

\* d + v*unit + f*unit/scale for a unit of unitMs milliseconds
AddComponent(d, v, f, scale, unitMs) ==
    Duration(d.neg,
             d.sec + v * (unitMs \div 1000)
                   + (d.ms + v * (unitMs % 1000) + (f * unitMs) \div scale) \div 1000,
             (d.ms + v * (unitMs % 1000) + (f * unitMs) \div scale) % 1000)

\* leadingInt / leadingFraction: the end of the run of digits from i on
RECURSIVE DigitsEnd(_, _)
DigitsEnd(s, i) == IF i <= Len(s) /\ IsDigit(s[i]) THEN DigitsEnd(s, i + 1) ELSE i

\* the value of the digits s[from..to-1]
RECURSIVE DigitsValue(_, _, _)
DigitsValue(s, from, to) ==
    IF from >= to THEN 0
    ELSE DigitsValue(s, from, to - 1) * 10 + (s[to - 1] - 48)

RECURSIVE Pow10(_)
Pow10(n) == IF n = 0 THEN 1 ELSE 10 * Pow10(n - 1)

\* the end of the unit: the run of characters that are neither '.' nor digits
RECURSIVE UnitEnd(_, _)
UnitEnd(s, i) ==
    IF i <= Len(s) /\ s[i] # ch_point /\ ~IsDigit(s[i]) THEN UnitEnd(s, i + 1) ELSE i

\* the loop of time.ParseDuration over the components, from position i on
RECURSIVE DurationFrom(_, _, _)
DurationUnit(s, d, intFrom, intTo, fracFrom, fracTo, unitTo) ==
    IF unitTo = fracTo THEN DurationError
    ELSE IF UnitMillis(SubSeq(s, fracTo, unitTo - 1)) = 0 THEN DurationError
    ELSE DurationFrom(s, unitTo,
             AddComponent(d, DigitsValue(s, intFrom, intTo),
                          DigitsValue(s, fracFrom, fracTo),
                          Pow10(fracTo - fracFrom),
                          UnitMillis(SubSeq(s, fracTo, unitTo - 1))))
DurationFraction(s, d, intFrom, intTo, fracFrom, fracTo) ==
    IF intTo = intFrom /\ fracTo = fracFrom THEN DurationError
    ELSE DurationUnit(s, d, intFrom, intTo, fracFrom, fracTo, UnitEnd(s, fracTo))
DurationInt(s, d, intFrom, intTo) ==
    IF intTo <= Len(s) /\ s[intTo] = ch_point
    THEN DurationFraction(s, d, intFrom, intTo, intTo + 1, DigitsEnd(s, intTo + 1))
    ELSE DurationFraction(s, d, intFrom, intTo, intTo, intTo)
DurationFrom(s, i, d) ==
    IF i > Len(s) THEN DurationOk(d)
    ELSE IF ~(s[i] = ch_point \/ IsDigit(s[i])) THEN DurationError
    ELSE DurationInt(s, d, i, DigitsEnd(s, i))

\* s: the text after the sign
DurationUnsigned(s, neg) ==
    IF s = <<48>> THEN DurationOk(Duration(FALSE, 0, 0))
    ELSE IF s = EmptyStr THEN DurationError
    ELSE DurationFrom(s, 1, Duration(neg, 0, 0))

\* time.ParseDuration
ParseDuration(s) ==
    IF s # EmptyStr /\ s[1] \in {ch_minus, ch_plus}
    THEN DurationUnsigned(Tail(s), s[1] = ch_minus)
    ELSE DurationUnsigned(s, FALSE)

\* days * 24
Times24(d) ==
    Duration(d.neg, d.sec * 24 + (d.ms * 24) \div 1000, (d.ms * 24) % 1000)

\* strings.HasSuffix(s, "d")
HasSuffixD(s) == s # EmptyStr /\ s[Len(s)] = ch_d

\* days: the outcome of time.ParseDuration(daysStr + "h")
DurationOfDays(s, days) ==
    IF days.ok THEN DurationOk(Times24(days.d)) ELSE ParseDuration(s)

parseDuration(s) ==
    IF HasSuffixD(s)
    THEN DurationOfDays(s, ParseDuration(SubSeq(s, 1, Len(s) - 1) \o <<ch_h>>))
    ELSE ParseDuration(s)

\* int64(duration.Seconds()): the seconds, cut towards zero
DurationSeconds(d) == IF d.neg THEN 0 - d.sec ELSE d.sec

\* a time.Time as its fields; frac holds the digits of the fractional second
\* and offset the minutes east of UTC
Time(year, month, day) ==
    [year |-> year, month |-> month, day |-> day, hour |-> 0, min |-> 0,
     sec |-> 0, frac |-> EmptyStr, offset |-> 0]

ZeroTime == Time(1, 1, 1)

TimeError == [ok |-> FALSE, t |-> ZeroTime]
TimeOk(t) == [ok |-> TRUE, t |-> t]

\* the layouts ParseSinceTime tries, by what they hold after the date: a
\* clock behind the separator sep, and a zone ("offset" is Z07:00, "Z" the
\* letter itself)
TimeLayout(name, clock, sep, zone) ==
    [name |-> name, clock |-> clock, sep |-> sep, zone |-> zone]

SinceFormats ==
    << TimeLayout("2006-01-02T15:04:05Z07:00", TRUE, ch_T, "offset"),
       TimeLayout("2006-01-02T15:04:05.999999999Z07:00", TRUE, ch_T, "offset"),
       TimeLayout("2006-01-02T15:04:05Z", TRUE, ch_T, "Z"),
       TimeLayout("2006-01-02T15:04:05", TRUE, ch_T, "none"),
       TimeLayout("2006-01-02 15:04:05", TRUE, ch_space, "none"),
       TimeLayout("2006-01-02", FALSE, ch_T, "none") >>

IsLeap(year) == year % 4 = 0 /\ (year % 100 # 0 \/ year % 400 = 0)

\* daysIn of package time
DaysIn(month, year) ==
    IF month = 2 THEN (IF IsLeap(year) THEN 29 ELSE 28)
    ELSE IF month \in {4, 6, 9, 11} THEN 30
    ELSE 31

AllDigits(v, from, to) == to <= Len(v) /\ \A k \in from..to : IsDigit(v[k])

CharAt(v, i, c) == i <= Len(v) /\ v[i] = c

\* the end of the layout: no text may be left, and the day must exist
ParseTimeEnd(v, i, t) ==
    IF i <= Len(v) THEN TimeError
    ELSE IF t.day < 1 \/ t.day > DaysIn(t.month, t.year) THEN TimeError
    ELSE TimeOk(t)

\* Z07:00 with a numeric offset at position i: sign, hh, ':', mm
ParseTimeOffset(v, i, t) ==
    IF Len(v) - i + 1 < 6 THEN TimeError
    ELSE IF v[i + 3] # ch_colon THEN TimeError
    ELSE IF ~AllDigits(v, i + 1, i + 2) \/ ~AllDigits(v, i + 4, i + 5) THEN TimeError
    ELSE IF DigitsValue(v, i + 1, i + 3) > 24 \/ DigitsValue(v, i + 4, i + 6) > 60
    THEN TimeError
    ELSE IF v[i] = ch_plus
    THEN ParseTimeEnd(v, i + 6,
             [t EXCEPT !.offset = DigitsValue(v, i + 1, i + 3) * 60
                                   + DigitsValue(v, i + 4, i + 6)])
    ELSE IF v[i] = ch_minus
    THEN ParseTimeEnd(v, i + 6,
             [t EXCEPT !.offset = 0 - (DigitsValue(v, i + 1, i + 3) * 60
                                        + DigitsValue(v, i + 4, i + 6))])
    ELSE TimeError

ParseTimeZone(layout, v, i, t) ==
    IF layout.zone = "none" THEN ParseTimeEnd(v, i, t)
    ELSE IF CharAt(v, i, ch_Z) THEN ParseTimeEnd(v, i + 1, t)
    ELSE IF layout.zone = "Z" THEN TimeError
    ELSE ParseTimeOffset(v, i, t)

\* behind the seconds: a fractional second is taken whether the layout
\* names one or not
ParseTimeFraction(layout, v, i, t) ==
    IF i + 1 <= Len(v) /\ v[i] \in {ch_point, ch_comma} /\ IsDigit(v[i + 1])
    THEN ParseTimeZone(layout, v, DigitsEnd(v, i + 1),
             [t EXCEPT !.frac = SubSeq(v, i + 1, Min(DigitsEnd(v, i + 1) - 1, i + 9))])
    ELSE ParseTimeZone(layout, v, i, t)

\* ":04:05" at position i
ParseTimeMinSec(layout, v, i, t) ==
    IF ~(CharAt(v, i, ch_colon) /\ AllDigits(v, i + 1, i + 2)
           /\ CharAt(v, i + 3, ch_colon) /\ AllDigits(v, i + 4, i + 5))
    THEN TimeError
    ELSE IF DigitsValue(v, i + 1, i + 3) >= 60 \/ DigitsValue(v, i + 4, i + 6) >= 60
    THEN TimeError
    ELSE ParseTimeFraction(layout, v, i + 6,
             [t EXCEPT !.min = DigitsValue(v, i + 1, i + 3),
                       !.sec = DigitsValue(v, i + 4, i + 6)])

\* the hour "15": one digit or two
ParseTimeHour(layout, v, i, t) ==
    IF ~(i <= Len(v) /\ IsDigit(v[i])) THEN TimeError
    ELSE IF DigitsValue(v, i, Min(DigitsEnd(v, i), i + 2)) >= 24 THEN TimeError
    ELSE ParseTimeMinSec(layout, v, Min(DigitsEnd(v, i), i + 2),
             [t EXCEPT !.hour = DigitsValue(v, i, Min(DigitsEnd(v, i), i + 2))])

\* the end of the run of spaces from i on
RECURSIVE SpacesEnd(_, _)
SpacesEnd(v, i) == IF i <= Len(v) /\ v[i] = ch_space THEN SpacesEnd(v, i + 1) ELSE i

\* the separator of date and clock: 'T' itself, or a space of the layout,
\* for which any run of spaces of the value stands
ParseTimeClock(layout, v, i, t) ==
    IF ~layout.clock THEN ParseTimeEnd(v, i, t)
    ELSE IF layout.sep = ch_space
    THEN IF i <= Len(v) /\ v[i] # ch_space THEN TimeError
         ELSE ParseTimeHour(layout, v, SpacesEnd(v, i), t)
    ELSE IF ~CharAt(v, i, ch_T) THEN TimeError
    ELSE ParseTimeHour(layout, v, i + 1, t)

\* "2006-01-02" at the start of the value
ParseTimeDate(layout, v) ==
    IF ~(AllDigits(v, 1, 4) /\ CharAt(v, 5, ch_minus) /\ AllDigits(v, 6, 7)
           /\ CharAt(v, 8, ch_minus) /\ AllDigits(v, 9, 10))
    THEN TimeError
    ELSE IF DigitsValue(v, 6, 8) <= 0 \/ DigitsValue(v, 6, 8) > 12 THEN TimeError
    ELSE ParseTimeClock(layout, v, 11,
             Time(DigitsValue(v, 1, 5), DigitsValue(v, 6, 8), DigitsValue(v, 9, 11)))

\* time.Parse(layout, value) for the layouts of SinceFormats
ParseTime(layout, value) == ParseTimeDate(layout, value)

\* *time.Time and *int64: nil, or a value
Nil == [present |-> FALSE, value |-> 0]
Pointer(value) == [present |-> TRUE, value |-> value]

SinceResult(sinceTime, sinceSeconds, err) ==
    [sinceTime |-> sinceTime, sinceSeconds |-> sinceSeconds, err |-> err]

NoSinceError == [isErr |-> FALSE, msg |-> EmptyStr]

\* "invalid since time format: "
str_invalidSince ==
    <<105,110,118,97,108,105,100,32,115,105,110,99,101,32,116,105,109,101,32,
      102,111,114,109,97,116,58,32>>

\* variant: the message does not name the input
InvalidSince_bare(s) ==
    SinceResult(Nil, Nil, [isErr |-> TRUE, msg |-> str_invalidSince])

\* fmt.Errorf("invalid since time format: %s", since)
InvalidSince(s) ==
    SinceResult(Nil, Nil, [isErr |-> TRUE, msg |-> str_invalidSince \o s])

\* the loop over formats, from the k-th on
RECURSIVE SinceOfFormats(_, _)
SinceOfFormat(s, k, parsed) ==
    IF parsed.ok THEN SinceResult(Pointer(parsed.t), Nil, NoSinceError)
    ELSE SinceOfFormats(s, k + 1)
SinceOfFormats(s, k) ==
    IF k > Len(SinceFormats) THEN InvalidSince(s)
    ELSE SinceOfFormat(s, k, ParseTime(SinceFormats[k], s))

\* duration: the outcome of parseDuration(since)
SinceOfDuration(s, duration) ==
    IF duration.ok
    THEN SinceResult(Nil, Pointer(DurationSeconds(duration.d)), NoSinceError)
    ELSE SinceOfFormats(s, 1)

ParseSinceTime(s) ==
    IF s = EmptyStr THEN SinceResult(Nil, Nil, NoSinceError)
    ELSE SinceOfDuration(s, parseDuration(s))

(***************************************************************************)
(* Since inputs: every string of up to MaxSinceLen characters over digits  *)
(* and unit letters, and a list of longer texts                            *)
(***************************************************************************)
MaxSinceLen == 4

SinceAlphabet == {49, 50, ch_h, ch_m, ch_s, ch_d}

RECURSIVE StringsUpTo(_, _)
StringsUpTo(A, n) ==
    IF n = 0 THEN { EmptyStr }
    ELSE StringsUpTo(A, n - 1)
           \cup { Append(t, c) : t \in { u \in StringsUpTo(A, n - 1) : Len(u) = n - 1 },
                                 c \in A }

SinceTexts == {
    <<48>>,                                                                                                   \* 0
    <<45,49,104>>,                                                                                            \* -1h
    <<49,46,53,100>>,                                                                                         \* 1.5d
    <<49,46,53,104>>,                                                                                         \* 1.5h
    <<98,111,103,117,115>>,                                                                                   \* bogus
    <<50,48,50,51,45,48,49,45,48,49>>,                                                                        \* 2023-01-01
    <<50,48,50,51,45,48,49,45,48,49,84,49,48,58,48,48,58,48,48,90>>,                                          \* 2023-01-01T10:00:00Z
    <<50,48,50,51,45,48,49,45,48,49,84,49,48,58,48,48,58,48,48,43,48,50,58,48,48>>,                           \* 2023-01-01T10:00:00+02:00
    <<50,48,50,51,45,48,49,45,48,49,84,49,48,58,48,48,58,48,48,46,53,90>>,                                    \* 2023-01-01T10:00:00.5Z
    <<50,48,50,51,45,48,49,45,48,49,84,49,48,58,48,48,58,48,48>>,                                             \* 2023-01-01T10:00:00
    <<50,48,50,51,45,48,49,45,48,49,32,49,48,58,48,48,58,48,48>>,                                             \* 2023-01-01 10:00:00
    <<50,48,50,51,45,49,51,45,48,49>>,                                                                        \* 2023-13-01
    <<50,48,50,51,45,48,50,45,50,57>>,                                                                        \* 2023-02-29
    <<50,48,50,52,45,48,50,45,50,57>>,                                                                        \* 2024-02-29
    <<50,48,50,51,45,48,49,45,48,49,84,50,52,58,48,48,58,48,48,90>>,                                          \* 2023-01-01T24:00:00Z
    <<50,48,50,51,45,48,49,45,48,49,84,49,48,58,48,48,58,48,48,90,120>>,                                      \* 2023-01-01T10:00:00Zx
    <<50,48,50,51,45,48,49,45,48,49,84,49,48,58,48,48>>,                                                      \* 2023-01-01T10:00
    <<48,49,47,48,50,47,50,48,50,51>>,                                                                        \* 01/02/2023
    <<50,104,49,100,32>>                                                                                      \* 2h1d (space)
    }

SinceInputs == StringsUpTo(SinceAlphabet, MaxSinceLen) \cup SinceTexts

InitSince ==
    /\ MetricsIdle
    /\ CodecIdle
    /\ ResolveIdle
    /\ FilterIdle
    /\ CallersIdle
    /\ ListingIdle
    /\ BootIdle
    /\ since \in { [phase |-> "input", input |-> s] : s \in SinceInputs }

\* one call of ParseSinceTime
CallParseSinceTime ==
    /\ since.phase = "input"
    /\ since' = [phase |-> "done", input |-> since.input,
                 result |-> ParseSinceTime(since.input)]
    /\ UNCHANGED <<metricsVars, codec, resolveVars, filter, callers, listing, bootVars>>

NextSince == CallParseSinceTime

SpecSince == InitSince /\ [][NextSince]_vars

(***************************************************************************)
(* Since properties                                                        *)
(***************************************************************************)
\* the value of a text in the grammar of whole-number components with the
\* units d, h, m and s, a day being 24 hours; -1 for a text outside of it
UnitSeconds(u) ==
    IF u = <<ch_d>> THEN 86400
    ELSE IF u = <<ch_h>> THEN 3600
    ELSE IF u = <<ch_m>> THEN 60
    ELSE IF u = <<ch_s>> THEN 1
    ELSE 0

RECURSIVE GrammarSeconds(_, _, _)
GrammarSeconds(s, i, total) ==
    IF i > Len(s) THEN total
    ELSE IF DigitsEnd(s, i) = i THEN -1
    ELSE IF UnitSeconds(SubSeq(s, DigitsEnd(s, i), UnitEnd(s, DigitsEnd(s, i)) - 1)) = 0
    THEN -1
    ELSE GrammarSeconds(s, UnitEnd(s, DigitsEnd(s, i)),
             total + DigitsValue(s, i, DigitsEnd(s, i))
                       * UnitSeconds(SubSeq(s, DigitsEnd(s, i),
                                            UnitEnd(s, DigitsEnd(s, i)) - 1)))

HasDay(s) == \E i \in 1..Len(s) : s[i] = ch_d

\* C16: an input with a day component that is accepted as a duration has
\* the value of the compound grammar in which a day is 24 hours: 86400 times
\* the day count plus the value of the other components
C16_DayUnitOfGrammar ==
    (/\ since.phase = "done"
     /\ since.result.sinceSeconds.present
     /\ HasDay(since.input)
     /\ GrammarSeconds(since.input, 1, 0) >= 0)
       => since.result.sinceSeconds.value = GrammarSeconds(since.input, 1, 0)

\* C17: the outcome of ParseSinceTime holds at most one of timestamp and
\* duration: none and no error for the empty input; the duration when the
\* input parses as one, otherwise the timestamp of the first format that
\* parses it; none of the two and an error holding the input for the rest
C17_SinceIsExclusive ==
    since.phase = "done" =>
        LET r == since.result
            formats == { k \in 1..Len(SinceFormats) :
                           ParseTime(SinceFormats[k], since.input).ok }
        IN  /\ ~(r.sinceTime.present /\ r.sinceSeconds.present)
            /\ since.input = EmptyStr =>
                  ~r.sinceTime.present /\ ~r.sinceSeconds.present /\ ~r.err.isErr
            /\ r.err.isErr =>
                  /\ ~r.sinceTime.present /\ ~r.sinceSeconds.present
                  /\ Contains(r.err.msg, since.input)
            /\ (since.input # EmptyStr /\ ~r.err.isErr) =>
                  /\ r.sinceTime.present # r.sinceSeconds.present
                  /\ r.sinceSeconds.present = parseDuration(since.input).ok
                  /\ r.sinceTime.present =>
                        \E k \in formats :
                            /\ \A j \in formats : k <= j
                            /\ r.sinceTime.value = ParseTime(SinceFormats[k], since.input).t
            /\ r.err.isErr = (/\ since.input # EmptyStr
                              /\ ~parseDuration(since.input).ok
                              /\ formats = {})

\* a rejected input with a trailing space, held by the error as written
C17_Witness ==
    /\ since.phase = "done"
    /\ since.result.err.isErr
    /\ since.input # EmptyStr
    /\ since.input[Len(since.input)] = ch_space

(***************************************************************************)
(* The get_logs tool: LogHandler.GetLogs                                   *)
(***************************************************************************)
\* strings.Split(s, ",")
RECURSIVE SplitCommaFrom(_, _, _)
SplitCommaFrom(s, start, i) ==
    IF i > Len(s) THEN << SubSeq(s, start, Len(s)) >>
    ELSE IF s[i] = ch_comma
    THEN << SubSeq(s, start, i - 1) >> \o SplitCommaFrom(s, i + 1, i + 1)
    ELSE SplitCommaFrom(s, start, i + 1)

\* white space of strings.TrimSpace, for ASCII text
IsWhite(c) == c \in {9, 10, 11, 12, 13, 32}

RECURSIVE TrimLeft(_)
TrimLeft(s) == IF s # EmptyStr /\ IsWhite(s[1]) THEN TrimLeft(Tail(s)) ELSE s

RECURSIVE TrimRight(_)
TrimRight(s) ==
    IF s # EmptyStr /\ IsWhite(s[Len(s)]) THEN TrimRight(SubSeq(s, 1, Len(s) - 1)) ELSE s

TrimSpace(s) == TrimRight(TrimLeft(s))

TrimAll(patterns) == [i \in 1..Len(patterns) |-> TrimSpace(patterns[i])]

\* variant: elements that are empty after trimming are left out
GrepPatterns_dropEmpty(param) ==
    IF param # EmptyStr
    THEN SelectSeq(TrimAll(SplitCommaFrom(param, 1, 1)), LAMBDA p : p # EmptyStr)
    ELSE << >>

\* the comma-separated patterns of grep_include / grep_exclude; nil for the
\* empty parameter
GrepPatterns(param) ==
    IF param # EmptyStr THEN TrimAll(SplitCommaFrom(param, 1, 1)) ELSE << >>

\* strconv.ParseInt(s, 10, 64) succeeds, for texts of a few characters:
\* an optional sign and digits
ParseIntOk(s) ==
    IF s # EmptyStr /\ s[1] \in {ch_minus, ch_plus}
    THEN Len(s) > 1 /\ AllDigits(s, 2, Len(s))
    ELSE s # EmptyStr /\ AllDigits(s, 1, Len(s))

\* the error GetLogs returns, by the step that failed
LogsError(step) == [isErr |-> TRUE, step |-> step]

\* the response: logs and the metadata computed from the filter outcome
LogsResponse(logs, totalLines, matchingLines, isFiltered, grepInclude, grepExclude) ==
    [isErr |-> FALSE, logs |-> logs, total_lines |-> totalLines,
     matching_lines |-> matchingLines, filtered |-> isFiltered,
     grep_include |-> grepInclude, grep_exclude |-> grepExclude]

\* filtered, counted: the outcomes of FilterLogs and CountMatchingLines
GetLogsFiltered(logs, opts, filtered, counted) ==
    IF filtered.err.isErr THEN LogsError("failed to filter logs")
    ELSE IF counted.err.isErr THEN LogsError("failed to count matching lines")
    ELSE LogsResponse(filtered.out, Len(SplitLines(logs)), counted.count,
                      Len(opts.GrepInclude) > 0 \/ Len(opts.GrepExclude) > 0,
                      opts.GrepInclude, opts.GrepExclude)

\* fetched: the outcome of GetPodLogsWithOptions
GetLogsFetched(opts, fetched) ==
    IF ~fetched.ok THEN LogsError("failed to get pod logs")
    ELSE GetLogsFiltered(fetched.logs, opts, FilterLogs(fetched.logs, opts),
                         CountMatchingLines(fetched.logs, opts))

\* filterOpts are validated before the logs are fetched
GetLogsValidated(opts, fetched) ==
    IF ValidateFilterOptions(opts).isErr THEN LogsError("invalid filter options")
    ELSE GetLogsFetched(opts, fetched)

\* params: the arguments of the tool; contextOK, fetched: the outcomes of
\* WithContext and of GetPodLogsWithOptions
GetLogs(params, contextOK, fetched) ==
    IF params.Name = EmptyStr THEN LogsError("pod name is required")
    ELSE IF params.Context # EmptyStr /\ ~contextOK
    THEN LogsError("failed to create client with context")
    ELSE IF params.MaxLines # EmptyStr /\ ~ParseIntOk(params.MaxLines)
    THEN LogsError("invalid max_lines value")
    ELSE IF ParseSinceTime(params.Since).err.isErr THEN LogsError("invalid since time")
    ELSE GetLogsValidated(
             FilterOptions(GrepPatterns(params.GrepInclude),
                           GrepPatterns(params.GrepExclude), params.UseRegex),
             fetched)

(***************************************************************************)
(* Log contents, filter options and get_logs requests                      *)
(***************************************************************************)
MaxContentLen == 3
MaxPatterns == 2

ContentAlphabet == {97, 98, NewLine}

Contents == StringsUpTo(ContentAlphabet, MaxContentLen)

PatternUniverse == << <<98>>,              \* b
                      <<94, 97>>,          \* ^a
                      <<46>>,              \* .
                      <<65>>,              \* A
                      <<40>>,              \* (
                      <<42>>,              \* *
                      EmptyStr >>          \* the empty pattern

\* the pattern lists: up to MaxPatterns different patterns, the first k of
\* them to include and the others to exclude
PatternLists ==
    UNION { { [include |-> SubSeq(order, 1, k),
               exclude |-> SubSeq(order, k + 1, Len(order))] : k \in 0..Len(order) } :
            order \in { [i \in 1..Len(q) |-> PatternUniverse[q[i]]] :
                          q \in InjectiveSeqs(1..Len(PatternUniverse), MaxPatterns) } }

OptionsUniverse ==
    { NilOptions }
      \cup { FilterOptions(l.include, l.exclude, re) :
               l \in PatternLists, re \in BOOLEAN }

\* strings.Join(elems, sep) for the request parameters
RECURSIVE JoinWith(_, _)
JoinWith(elems, sep) ==
    IF elems = << >> THEN EmptyStr
    ELSE IF Len(elems) = 1 THEN elems[1]
    ELSE elems[1] \o sep \o JoinWith(Tail(elems), sep)

str_podname == <<112>>
str_ctx == <<99>>

\* a get_logs request for the patterns of opts, written with the separator
\* sep, and the ways it can go wrong before the logs are filtered
LogParams(opts, sep) ==
    [Name |-> str_podname, Context |-> EmptyStr, MaxLines |-> EmptyStr,
     Since |-> EmptyStr, UseRegex |-> opts.UseRegex,
     GrepInclude |-> JoinWith(opts.GrepInclude, sep),
     GrepExclude |-> JoinWith(opts.GrepExclude, sep)]

LogRequests(opts) ==
    { [params |-> LogParams(opts, <<ch_comma>>), contextOK |-> TRUE, fetchOK |-> TRUE],
      [params |-> LogParams(opts, <<ch_comma, ch_space>>), contextOK |-> TRUE,
       fetchOK |-> TRUE],
      [params |-> [LogParams(opts, <<ch_comma>>) EXCEPT !.Name = EmptyStr],
       contextOK |-> TRUE, fetchOK |-> TRUE],
      [params |-> [LogParams(opts, <<ch_comma>>) EXCEPT !.Context = str_ctx],
       contextOK |-> FALSE, fetchOK |-> TRUE],
      [params |-> [LogParams(opts, <<ch_comma>>) EXCEPT !.MaxLines = <<120>>],
       contextOK |-> TRUE, fetchOK |-> TRUE],
      [params |-> [LogParams(opts, <<ch_comma>>)
                     EXCEPT !.MaxLines = <<53>>, !.Since = <<49, ch_d>>,
                            !.Context = str_ctx],
       contextOK |-> TRUE, fetchOK |-> TRUE],
      [params |-> [LogParams(opts, <<ch_comma>>) EXCEPT !.Since = <<49, ch_d, ch_d>>],
       contextOK |-> TRUE, fetchOK |-> TRUE],
      [params |-> LogParams(opts, <<ch_comma>>), contextOK |-> TRUE, fetchOK |-> FALSE] }

InitFilter ==
    /\ MetricsIdle
    /\ CodecIdle
    /\ ResolveIdle
    /\ SinceIdle
    /\ CallersIdle
    /\ ListingIdle
    /\ BootIdle
    /\ filter \in { [phase |-> "input", content |-> c, opts |-> o] :
                      c \in Contents, o \in OptionsUniverse }

FilterFrame ==
    UNCHANGED <<metricsVars, codec, resolveVars, since, callers, listing, bootVars>>

\* a call of FilterLogs on the content and the options
CallFilterLogs ==
    /\ filter.phase = "input"
    /\ filter' = [phase |-> "FilterLogs", content |-> filter.content,
                  opts |-> filter.opts,
                  result |-> FilterLogs(filter.content, filter.opts)]
    /\ FilterFrame

\* a call of CountMatchingLines on the content and the options
CallCountMatchingLines ==
    /\ filter.phase = "input"
    /\ filter' = [phase |-> "CountMatchingLines", content |-> filter.content,
                  opts |-> filter.opts,
                  result |-> CountMatchingLines(filter.content, filter.opts)]
    /\ FilterFrame

\* a call of ValidateFilterOptions on the options
CallValidateFilterOptions ==
    /\ filter.phase = "input"
    /\ filter' = [phase |-> "ValidateFilterOptions", content |-> filter.content,
                  opts |-> filter.opts,
                  result |-> ValidateFilterOptions(filter.opts)]
    /\ FilterFrame

\* a get_logs call whose pod holds the content
CallGetLogs ==
    /\ filter.phase = "input"
    /\ ~filter.opts.isNil
    /\ \E r \in LogRequests(filter.opts) :
          filter' = [phase |-> "GetLogs", content |-> filter.content,
                     opts |-> filter.opts, request |-> r,
                     result |-> GetLogs(r.params, r.contextOK,
                                        [ok |-> r.fetchOK,
                                         logs |-> IF r.fetchOK THEN filter.content
                                                  ELSE EmptyStr])]
    /\ FilterFrame

NextFilter ==
    \/ CallFilterLogs
    \/ CallCountMatchingLines
    \/ CallValidateFilterOptions
    \/ CallGetLogs

SpecFilter == InitFilter /\ [][NextFilter]_vars

(***************************************************************************)
(* Properties of the log filter                                            *)
(***************************************************************************)
\* the pattern occurs in the line as a run of consecutive characters
Occurs(pattern, line) ==
    \E i \in 1..(Len(line) - Len(pattern) + 1) :
        SubSeq(line, i, i + Len(pattern) - 1) = pattern

\* what the patterns of PatternUniverse that compile mean as regular
\* expressions searched anywhere in a line
Means(pattern, line) ==
    IF pattern = <<94, 97>> THEN line # EmptyStr /\ line[1] = 97
    ELSE IF pattern = <<46>> THEN line # EmptyStr
    ELSE Occurs(pattern, line)

\* the patterns of PatternUniverse that are no regular expression
Malformed(pattern) == pattern \in { <<40>>, <<42>> }

Matches(pattern, line, useRegex) ==
    IF useRegex THEN Means(pattern, line) ELSE Occurs(pattern, line)

\* the line passes the include stage and the exclude stage
Passes(line, opts) ==
    /\ \/ opts.GrepInclude = << >>
       \/ \E k \in 1..Len(opts.GrepInclude) :
              Matches(opts.GrepInclude[k], line, opts.UseRegex)
    /\ \A k \in 1..Len(opts.GrepExclude) :
              ~Matches(opts.GrepExclude[k], line, opts.UseRegex)

IsNonEmpty(line) == line # EmptyStr

NonEmptyLines(text) == SelectSeq(SplitLines(text), IsNonEmpty)

RECURSIVE SelectPassing(_, _)
SelectPassing(lines, opts) ==
    IF lines = << >> THEN << >>
    ELSE IF Passes(lines[1], opts) THEN <<lines[1]>> \o SelectPassing(Tail(lines), opts)
    ELSE SelectPassing(Tail(lines), opts)

Filtered == filter.phase = "FilterLogs" /\ ~filter.result.err.isErr

\* C12: the non-empty lines FilterLogs returns are the non-empty lines of the
\* content that match some include pattern (or any line, without include
\* patterns) and no exclude pattern, in their original order; matching is
\* case-sensitive containment, or an unanchored search in regex mode
C12_KeepsPassingLines ==
    Filtered =>
        NonEmptyLines(filter.result.out)
            = SelectPassing(NonEmptyLines(filter.content), filter.opts)

\* a line matching an include and an exclude pattern was dropped while
\* another line was kept
C12_Witness ==
    /\ Filtered
    /\ filter.opts.UseRegex
    /\ filter.result.out # EmptyStr
    /\ \E i \in 1..Len(SplitLines(filter.content)) :
          LET line == SplitLines(filter.content)[i]
          IN  /\ line # EmptyStr
              /\ \E k \in 1..Len(filter.opts.GrepInclude) :
                    Means(filter.opts.GrepInclude[k], line)
              /\ \E k \in 1..Len(filter.opts.GrepExclude) :
                    Means(filter.opts.GrepExclude[k], line)

\* the lines of the content without the empty line after a trailing newline
WithoutTrailingEmpty(lines) ==
    IF Len(lines) > 1 /\ lines[Len(lines)] = EmptyStr
    THEN SubSeq(lines, 1, Len(lines) - 1)
    ELSE lines

\* C13: FilterLogs drops only the empty line after a trailing newline: every
\* other line that passes the include and exclude stages, blank or not, is
\* in the output at its place
C13_InteriorBlankLinesKept ==
    (Filtered /\ ~filter.opts.isNil) =>
        filter.result.out
            = JoinLines(SelectPassing(WithoutTrailingEmpty(SplitLines(filter.content)),
                                      filter.opts))

\* the number of newline-delimited lines of a text, none for the empty text
RECURSIVE NewLines(_)
NewLines(text) ==
    IF text = EmptyStr THEN 0
    ELSE (IF text[1] = NewLine THEN 1 ELSE 0) + NewLines(Tail(text))

LineCount(text) == IF text = EmptyStr THEN 0 ELSE 1 + NewLines(text)

\* C14: CountMatchingLines is the number of lines of what FilterLogs returns,
\* 0 for the empty string, and matching_lines of a get_logs response is the
\* number of lines of its logs
C14_CountAgreesWithLogs ==
    /\ (filter.phase = "CountMatchingLines" /\ ~filter.result.err.isErr) =>
          /\ ~FilterLogs(filter.content, filter.opts).err.isErr
          /\ filter.result.count
                = LineCount(FilterLogs(filter.content, filter.opts).out)
    /\ (filter.phase = "GetLogs" /\ ~filter.result.isErr) =>
          filter.result.matching_lines = LineCount(filter.result.logs)

\* a filtered get_logs response of two lines, and one without any
C14_Witness ==
    /\ filter.phase = "GetLogs"
    /\ ~filter.result.isErr
    /\ filter.result.filtered
    /\ filter.result.total_lines > filter.result.matching_lines
    /\ filter.result.matching_lines = 2

\* the positions of the patterns, include list first, that do not compile
FailingAt(opts) ==
    { i \in 1..Len(opts.GrepInclude \o opts.GrepExclude) :
        Malformed((opts.GrepInclude \o opts.GrepExclude)[i]) }

FirstFailing(opts) == CHOOSE i \in FailingAt(opts) : \A j \in FailingAt(opts) : i <= j

\* C15: with UseRegex, ValidateFilterOptions fails exactly when a pattern
\* does not compile, and names the first such pattern of the include list
\* followed by the exclude list, quoted, with the list it is from; without
\* UseRegex or with nil options it succeeds
C15_ReportsFirstBadPattern ==
    filter.phase = "ValidateFilterOptions" =>
        IF filter.opts.isNil \/ ~filter.opts.UseRegex
        THEN ~filter.result.isErr
        ELSE /\ filter.result.isErr <=> FailingAt(filter.opts) # {}
             /\ filter.result.isErr =>
                  /\ filter.result.pattern
                       = <<34>> \o (filter.opts.GrepInclude \o filter.opts.GrepExclude)
                                       [FirstFailing(filter.opts)] \o <<34>>
                  /\ filter.result.list
                       = IF FirstFailing(filter.opts) <= Len(filter.opts.GrepInclude)
                         THEN "include" ELSE "exclude"

\* both lists hold a pattern that does not compile
C15_Witness ==
    /\ filter.phase = "ValidateFilterOptions"
    /\ filter.opts.UseRegex
    /\ filter.result.isErr
    /\ \E k \in 1..Len(filter.opts.GrepInclude) : Malformed(filter.opts.GrepInclude[k])
    /\ \E k \in 1..Len(filter.opts.GrepExclude) : Malformed(filter.opts.GrepExclude[k])

(***************************************************************************)
(* Two callers in the list path of the metrics handlers. Each call runs    *)
(* on its own goroutine with its own locals; the steps of the two calls    *)
(* interleave. The request and the metrics server's lists are the same     *)
(* for both.                                                               *)
(***************************************************************************)
NumCallers == 2

\* the locals of a call: the items fetched and sorted, the decoded token,
\* the response
CallerStart ==
    [pc |-> "start", items |-> << >>,
     parsed |-> [err |-> "", state |-> ZeroPaginationState], result |-> NoResponse]

\* the list the metrics server returns to the call
FetchedList(tool, p, nodes, pods) ==
    IF tool = "get_node_metrics" THEN nodes
    ELSE IF p.Namespace # EmptyStr THEN GetPodMetricsByNamespace(pods, p.Namespace)
    ELSE pods

Fetched(cs, c, list) == [cs EXCEPT ![c].pc = "fetched", ![c].items = list]

\* the names or the metrics, in the order of the mode
SortedList(tool, p, items) ==
    IF tool = "get_node_metrics"
    THEN (IF p.TitleOnly THEN SortSlice("string", NodeTitles(items))
          ELSE SortSlice("timestamp", items))
    ELSE (IF p.TitleOnly THEN SortSlice("podname", PodTitles(items))
          ELSE SortSlice("timestamp", items))

Sorted(cs, c, tool, p) ==
    [cs EXCEPT ![c].pc = "sorted", ![c].items = SortedList(tool, p, cs[c].items)]

Parsed(cs, c, p) ==
    [cs EXCEPT ![c].pc = "parsed", ![c].parsed = parseContinueToken(p.Continue)]

\* the response of the call from its own items and token
PageOf(tool, p, items, parsed) ==
    IF tool = "get_node_metrics" THEN NodePageFrom(items, p, parsed)
    ELSE PodPageFrom(items, p, parsed)

\* the calls that have returned
Returned(cs) == { k \in 1..Len(cs) : cs[k].pc = "done" }

\* variant: the offset is a cursor shared by the callers, moved on by one
\* limit by every call that returned
Responded_sharedCursor(cs, c, tool, p) ==
    [cs EXCEPT ![c].pc = "done",
               ![c].result =
                   PageOf(tool, p, cs[c].items,
                          [cs[c].parsed EXCEPT
                              !.state.Offset = @ + p.Limit * Cardinality(Returned(cs))])]

Responded(cs, c, tool, p) ==
    [cs EXCEPT ![c].pc = "done",
               ![c].result = PageOf(tool, p, cs[c].items, cs[c].parsed)]

\* the response without pagination: the whole list
RespondedAll(cs, c, tool, p) ==
    [cs EXCEPT ![c].pc = "done",
               ![c].result =
                   IF tool = "get_node_metrics"
                   THEN ListResult("NodeMetricsList", EmptyStr, cs[c].items, FALSE, EmptyStr)
                   ELSE ListResult("PodMetricsList", p.Namespace, cs[c].items, FALSE,
                                   EmptyStr)]

\* the tokens the two callers present: none, a malformed one, and the
\* tokens of the request's own kind and namespace
CallerTokens(kind, ns) ==
    {EmptyStr, tok_badchar} \cup { generateContinueToken(o, kind, ns) : o \in 0..MaxOffset }

CallerRequests ==
    { [tool |-> "get_node_metrics", fetchOK |-> TRUE,
       p |-> [NodeName |-> EmptyStr, Limit |-> l, Continue |-> t, TitleOnly |-> b]] :
          l \in 0..MaxLimit, t \in CallerTokens(str_node, EmptyStr), b \in BOOLEAN }
    \cup
    UNION { { [tool |-> "get_pod_metrics", fetchOK |-> TRUE,
               p |-> [Namespace |-> ns, PodName |-> EmptyStr, Limit |-> l,
                      Continue |-> t, TitleOnly |-> b]] :
                l \in 0..MaxLimit, t \in CallerTokens(str_pod, ns), b \in BOOLEAN } :
            ns \in {ns_a, EmptyStr} }

InitCallers ==
    /\ \E order \in InjectiveSeqs(1..Len(PodUniverse), MaxItems) :
          /\ nodeMetrics = [i \in 1..Len(order) |-> NodeUniverse[order[i]]]
          /\ podMetrics = [i \in 1..Len(order) |-> PodUniverse[order[i]]]
    /\ req \in CallerRequests
    /\ resp = NoResponse
    /\ chain = ChainIdle
    /\ callers = [c \in 1..NumCallers |-> CallerStart]
    /\ CodecIdle
    /\ ResolveIdle
    /\ FilterIdle
    /\ SinceIdle
    /\ ListingIdle
    /\ BootIdle

CallersFrame ==
    UNCHANGED <<metricsVars, codec, resolveVars, filter, since, listing, bootVars>>

\* caller c receives the list of the metrics server
CallerFetch(c) ==
    /\ callers[c].pc = "start"
    /\ callers' = Fetched(callers, c, FetchedList(req.tool, req.p, nodeMetrics, podMetrics))
    /\ CallersFrame

\* caller c sorts its list
CallerSort(c) ==
    /\ callers[c].pc = "fetched"
    /\ callers' = Sorted(callers, c, req.tool, req.p)
    /\ CallersFrame

\* caller c decodes the continue token
CallerParse(c) ==
    /\ callers[c].pc = "sorted"
    /\ req.p.Limit > 0
    /\ callers' = Parsed(callers, c, req.p)
    /\ CallersFrame

\* caller c cuts its page and returns it with the next token
CallerRespond(c) ==
    /\ callers[c].pc = "parsed"
    /\ callers' = Responded(callers, c, req.tool, req.p)
    /\ CallersFrame

\* caller c returns the whole list: no limit was given
CallerRespondAll(c) ==
    /\ callers[c].pc = "sorted"
    /\ req.p.Limit = 0
    /\ callers' = RespondedAll(callers, c, req.tool, req.p)
    /\ CallersFrame

NextCallers ==
    \E c \in 1..NumCallers :
        \/ CallerFetch(c)
        \/ CallerSort(c)
        \/ CallerParse(c)
        \/ CallerRespond(c)
        \/ CallerRespondAll(c)

SpecCallers == InitCallers /\ [][NextCallers]_vars

(***************************************************************************)
(* Properties of concurrent list calls                                     *)
(***************************************************************************)
\* what the handler returns to the request when it runs alone
AloneResult ==
    IF req.tool = "get_node_metrics" THEN GetNodeMetrics(nodeMetrics, req.p, TRUE)
    ELSE GetPodMetrics(podMetrics, req.p, TRUE)

Collection == FetchedList(req.tool, req.p, nodeMetrics, podMetrics)

\* the orders of the collection in which no item is older than the next
NewestFirstOrders(list) ==
    { [i \in 1..Len(list) |-> list[q[i]]] :
        q \in { r \in InjectiveSeqs(1..Len(list), Len(list)) :
                  /\ Len(r) = Len(list)
                  /\ \A i \in 1..(Len(r) - 1) : list[r[i]].ts >= list[r[i + 1]].ts } }

\* what the response shows of the items: the metrics, or their titles
Shown(list) ==
    IF ~req.p.TitleOnly THEN list
    ELSE IF req.tool = "get_node_metrics" THEN NodeTitles(list)
    ELSE PodTitles(list)

\* C20: the metrics tools list the collection newest first in every mode:
\* the pages read from the empty token on, and the list returned without a
\* limit, follow an order of the collection by timestamp, newest first
C20_NewestFirstInEveryMode ==
    /\ chain.active =>
          \E ordered \in NewestFirstOrders(Collection) :
              chain.acc = SubSeq(Shown(ordered), 1, Len(chain.acc))
    /\ ( /\ req.tool \in {"get_node_metrics", "get_pod_metrics"}
         /\ req.p.Limit = 0
         /\ ~resp.isError
         /\ resp.kind \in {"NodeMetricsList", "PodMetricsList"} ) =>
          \E ordered \in NewestFirstOrders(Collection) : resp.items = Shown(ordered)


(***************************************************************************)
(* The list_resources tool: ResourceHandler.ListResources                  *)
(***************************************************************************)
\* an object of the cluster: metadata.name, metadata.creationTimestamp
\* (absent without hasStamp) and the rest of the object
Resource(name, hasStamp, stamp) ==
    [name |-> name, hasStamp |-> hasStamp, creationTimestamp |-> stamp,
     body |-> "spec and status"]

\* extractResourceSummary: apiVersion, kind and metadata, nothing else
extractResourceSummary(resource) ==
    [name |-> resource.name, hasStamp |-> resource.hasStamp,
     creationTimestamp |-> resource.creationTimestamp]

Summaries(resources) ==
    [i \in 1..Len(resources) |-> extractResourceSummary(resources[i])]

\* getCreationTime: the RFC3339 creationTimestamp of a summary
getCreationTime(item) ==
    IF ~item.hasStamp THEN TimeError
    ELSE ParseTime(SinceFormats[1], item.creationTimestamp)

\* days of the year before the month
RECURSIVE DaysBefore(_, _)
DaysBefore(month, year) ==
    IF month <= 1 THEN 0 ELSE DaysIn(month - 1, year) + DaysBefore(month - 1, year)

\* the minute of a time, counted from the year 1, in UTC
MinuteOf(t) ==
    ((365 * (t.year - 1) + ((t.year - 1) \div 4) - ((t.year - 1) \div 100)
        + ((t.year - 1) \div 400) + DaysBefore(t.month, t.year) + t.day) * 1440)
      + t.hour * 60 + t.min - t.offset

NanosOf(t) ==
    IF t.frac = EmptyStr THEN 0
    ELSE DigitsValue(t.frac, 1, Len(t.frac) + 1) * Pow10(9 - Len(t.frac))

\* Time.After
After(t, u) ==
    \/ MinuteOf(t) > MinuteOf(u)
    \/ MinuteOf(t) = MinuteOf(u) /\ t.sec > u.sec
    \/ MinuteOf(t) = MinuteOf(u) /\ t.sec = u.sec /\ NanosOf(t) > NanosOf(u)

\* the less function of the sort; ti, tj: getCreationTime of the two items
LessByTimes(ti, tj) ==
    IF ~ti.ok /\ ~tj.ok THEN FALSE
    ELSE IF ~ti.ok THEN FALSE
    ELSE IF ~tj.ok THEN TRUE
    ELSE After(ti.t, tj.t)

LessByCreation(a, b) == LessByTimes(getCreationTime(a), getCreationTime(b))

\* sort.Slice on the short slices of the model is insertion sort
RECURSIVE InsertByCreation(_, _)
InsertByCreation(s, x) ==
    IF s = << >> THEN <<x>>
    ELSE IF LessByCreation(x, s[Len(s)])
    THEN Append(InsertByCreation(SubSeq(s, 1, Len(s) - 1), x), s[Len(s)])
    ELSE Append(s, x)

RECURSIVE SortByCreation(_)
SortByCreation(s) ==
    IF s = << >> THEN << >>
    ELSE InsertByCreation(SortByCreation(SubSeq(s, 1, Len(s) - 1)), s[Len(s)])

\* the continue token of the API server for the position pos: opaque text
ServerToken(pos) == <<107, 48 + pos>>

\* the position a continue token stands for; -1 for a token the server
\* does not accept
TokenPosition(token, n) ==
    IF token = EmptyStr THEN 0
    ELSE IF Len(token) = 2 /\ token[1] = 107 /\ token[2] - 48 \in 1..(n - 1)
    THEN token[2] - 48
    ELSE -1

\* resourceInterface.List: a chunk of the collection, kept by the server in
\* the order of the names, and the token of the next chunk
ServerChunk(collection, limit, start) ==
    IF limit > 0 /\ start + limit < Len(collection)
    THEN [ok |-> TRUE, Items |-> SubSeq(collection, start + 1, start + limit),
          Continue |-> ServerToken(start + limit)]
    ELSE [ok |-> TRUE, Items |-> SubSeq(collection, start + 1, Len(collection)),
          Continue |-> EmptyStr]

ServerList(collection, fetchOK, limit, continue) ==
    IF ~fetchOK \/ TokenPosition(continue, Len(collection)) < 0
    THEN [ok |-> FALSE, Items |-> << >>, Continue |-> EmptyStr]
    ELSE ServerChunk(collection, limit, TokenPosition(continue, Len(collection)))

ListError(msg) ==
    [isError |-> TRUE, msg |-> msg, count |-> 0, items |-> << >>,
     hasContinue |-> FALSE, continue |-> EmptyStr]

\* the result map: count, items and, when the server gave one, continue
ListResponse(items, continue) ==
    [isError |-> FALSE, msg |-> "", count |-> Len(items), items |-> items,
     hasContinue |-> continue # EmptyStr, continue |-> continue]

\* only a request without continue token and without limit is sorted
ListSorted(params, items, continue) ==
    ListResponse(IF params.Continue = EmptyStr /\ params.Limit = 0
                 THEN SortByCreation(items)
                 ELSE items,
                 continue)

\* resources: the outcome of client.ListResources
ListFetched(params, resources) ==
    IF ~resources.ok THEN ListError("failed to list resources")
    ELSE ListSorted(params, Summaries(resources.Items), resources.Continue)

\* gvr: the outcome of ResolveResourceType
ListResolved(params, gvr, collection, fetchOK) ==
    IF gvr.status # "ok" THEN ListError("failed to resolve resource type")
    ELSE ListFetched(params,
             ServerList(collection, fetchOK,
                        IF params.Limit > 0 THEN params.Limit ELSE 0,
                        params.Continue))

\* lists, err: the discovery catalog; collection, fetchOK: the API server
ListResources(params, contextOK, lists, err, collection, fetchOK) ==
    IF params.ResourceType = EmptyStr THEN ListError("resource_type is required")
    ELSE IF params.Context # EmptyStr /\ ~contextOK
    THEN ListError("failed to create client with context")
    ELSE ListResolved(params,
                      ResolveResourceType(lists, err, params.ResourceType,
                                          params.APIVersion),
                      collection, fetchOK)

(***************************************************************************)
(* Collections and list_resources requests                                 *)
(***************************************************************************)
MaxResources == 3      \* most objects the API server holds
MaxPageLimit == 2      \* largest limit argument

ResourceUniverse ==
    << Resource(<<97>>, TRUE, <<50,48,50,52,45,48,49,45,48,53,84,48,48,58,48,48,58,48,48,90>>),  \* a  2024-01-05T00:00:00Z
       Resource(<<98>>, TRUE, <<50,48,50,52,45,48,51,45,48,49,84,49,50,58,48,48,58,48,48,90>>),  \* b  2024-03-01T12:00:00Z
       Resource(<<99>>, TRUE, <<50,48,50,52,45,48,50,45,49,48,84,48,48,58,48,48,58,48,48,90>>),  \* c  2024-02-10T00:00:00Z
       Resource(<<100>>, TRUE, <<50,48,50,52,45,49,51,45,48,49,84,48,48,58,48,48,58,48,48,90>>),  \* d  month 13
       Resource(<<101>>, FALSE, EmptyStr) >>  \* e  no creationTimestamp

\* the objects the server holds: some of the universe, in name order
RECURSIVE Picked(_, _)
Picked(chosen, i) ==
    IF i > Len(ResourceUniverse) THEN << >>
    ELSE IF i \in chosen THEN <<ResourceUniverse[i]>> \o Picked(chosen, i + 1)
    ELSE Picked(chosen, i + 1)

Collections ==
    { Picked(chosen, 1) :
        chosen \in { c \in SUBSET (1..Len(ResourceUniverse)) :
                       Cardinality(c) <= MaxResources } }

tok_expired == <<120>>                                    \* x

ListParams(resourceType, limit, continue) ==
    [ResourceType |-> resourceType, APIVersion |-> EmptyStr, Context |-> EmptyStr,
     Limit |-> limit, Continue |-> continue]

ListRequests ==
    { [params |-> ListParams(al_pods, l, t), contextOK |-> TRUE, discoveryErr |-> FALSE,
       fetchOK |-> TRUE] :
         l \in (-1)..MaxPageLimit, t \in {EmptyStr, ServerToken(1), tok_expired} }
    \cup
    { [params |-> ListParams(EmptyStr, 0, EmptyStr), contextOK |-> TRUE,
       discoveryErr |-> FALSE, fetchOK |-> TRUE],
      [params |-> ListParams(al_nope, 0, EmptyStr), contextOK |-> TRUE,
       discoveryErr |-> FALSE, fetchOK |-> TRUE],
      [params |-> ListParams(al_po, 0, EmptyStr), contextOK |-> TRUE,
       discoveryErr |-> TRUE, fetchOK |-> TRUE],
      [params |-> [ListParams(al_Pod, 0, EmptyStr) EXCEPT !.Context = str_ctx],
       contextOK |-> FALSE, discoveryErr |-> FALSE, fetchOK |-> TRUE],
      [params |-> [ListParams(al_Pod, 0, EmptyStr) EXCEPT !.APIVersion = gv_core],
       contextOK |-> TRUE, discoveryErr |-> FALSE, fetchOK |-> TRUE],
      [params |-> ListParams(al_pods, 0, EmptyStr), contextOK |-> TRUE,
       discoveryErr |-> FALSE, fetchOK |-> FALSE] }

InitListing ==
    /\ MetricsIdle
    /\ CodecIdle
    /\ ResolveIdle
    /\ FilterIdle
    /\ SinceIdle
    /\ CallersIdle
    /\ BootIdle
    /\ listing \in { [phase |-> "input", server |-> c] : c \in Collections }

ListingFrame ==
    UNCHANGED <<metricsVars, codec, resolveVars, filter, since, callers, bootVars>>

Listed(r) ==
    [phase |-> "answered", server |-> listing.server, request |-> r,
     result |-> ListResources(r.params, r.contextOK, <<list_core>>, r.discoveryErr,
                              listing.server, r.fetchOK)]

\* a list_resources call
CallListResources ==
    /\ listing.phase = "input"
    /\ \E r \in ListRequests : listing' = Listed(r)
    /\ ListingFrame

\* the client repeats the request with the continue token of the response
FollowListContinue ==
    /\ listing.phase = "answered"
    /\ listing.result.hasContinue
    /\ listing' = Listed([listing.request EXCEPT
                              !.params.Continue = listing.result.continue])
    /\ ListingFrame

NextListing == CallListResources \/ FollowListContinue

SpecListing == InitListing /\ [][NextListing]_vars

(***************************************************************************)
(* Properties of list_resources                                            *)
(***************************************************************************)
\* no item comes before an item that is newer, and none without a valid
\* creation timestamp comes before one that has it
NewestFirst(items) ==
    \A i \in 1..Len(items) : \A j \in (i + 1)..Len(items) :
        /\ getCreationTime(items[j]).ok => getCreationTime(items[i]).ok
        /\ ~( /\ getCreationTime(items[i]).ok
              /\ getCreationTime(items[j]).ok
              /\ After(getCreationTime(items[j]).t, getCreationTime(items[i]).t) )

\* C19: the items of every list_resources response are in the order of their
\* creation timestamps, newest first, those without a valid one last, also
\* when the request sets limit or continue
C19_ItemsNewestFirst ==
    (listing.phase = "answered" /\ ~listing.result.isError) =>
        NewestFirst(listing.result.items)

\* the same for the requests that set neither limit nor continue
C19_UnpagedNewestFirst ==
    ( /\ listing.phase = "answered"
      /\ ~listing.result.isError
      /\ listing.request.params.Limit = 0
      /\ listing.request.params.Continue = EmptyStr ) =>
        NewestFirst(listing.result.items)

(***************************************************************************)
(* The page window of the metrics tools                                    *)
(***************************************************************************)
\* the presented token is one the tool of the request pages from
TokenPaged ==
    /\ PagedRequest
    /\ Presented.err = ""
    /\ req.tool = "get_pod_metrics" => Presented.state.Type \in {EmptyStr, str_pod}

\* the offset the page starts at: the offset of the token, or 0 when
\* get_pod_metrics is asked for another namespace than the token's
EffectiveOffset ==
    IF req.tool = "get_pod_metrics" /\ Presented.state.Namespace # req.p.Namespace
    THEN 0
    ELSE Presented.state.Offset

WindowEnd == Min(EffectiveOffset + req.p.Limit, Len(RequestList))

\* C25: with limit > 0 and an effective offset o in 0..n the call returns
\* items[o : min(o+limit, n)], a continue token exactly when that window
\* ends before n, decoding to o+limit with the kind and namespace of the
\* request, and a count that is the number of items, at most limit
C25_PageIsWindow ==
    (TokenPaged /\ EffectiveOffset \in 0..Len(RequestList)) =>
        /\ ~resp.isError /\ ~resp.panic
        /\ resp.items = SubSeq(RequestList, EffectiveOffset + 1, WindowEnd)
        /\ resp.hasContinue <=> WindowEnd < Len(RequestList)
        /\ resp.hasContinue =>
              parseContinueToken(resp.continue)
                = [err |-> "",
                   state |-> PaginationState(EffectiveOffset + req.p.Limit, RequestKind,
                                             RequestNamespace)]
        /\ ~resp.hasContinue => resp.continue = EmptyStr
        /\ resp.count = Len(resp.items)
        /\ resp.count <= req.p.Limit

\* a middle page of get_pod_metrics read from a presented token
C25_Witness ==
    /\ TokenPaged
    /\ req.tool = "get_pod_metrics"
    /\ req.p.Continue # EmptyStr
    /\ EffectiveOffset = 1
    /\ req.p.Limit = 1
    /\ Len(RequestList) = 3
    /\ resp.hasContinue
    /\ resp.count = 1

\* C27: for every token parseContinueToken accepts and every limit > 0 the
\* call ends with a page or an error: no slice is taken outside the bounds
\* of the item list
C27_NoSliceOutOfBounds ==
    (PagedRequest /\ Presented.err = "") => ~resp.panic

(***************************************************************************)
(* Discovery errors at startup and at resolution                           *)
(***************************************************************************)
\* the discovery reported an error together with lists, one of which has a
\* registrable resource answering to the requested name
PartialCatalogCarries ==
    /\ discoveryErr
    /\ Len(catalog) > 0
    /\ Carriers(CatalogEntries(catalog), resolveReq.resourceType,
                resolveReq.apiVersion) # {}

\* C28: whenever the discovery reports an error ResolveResourceType returns
\* the discovery error, also when the lists that came with the error hold
\* the requested name; TestConnectivity, given the same error with at least
\* one list, succeeds when its two other checks do, so a server that
\* started can fail every resolution
C28_PartialDiscoveryFailsResolution ==
    /\ (discoveryErr /\ resolveRes.status # "none")
          => resolveRes = DiscoveryFailed
    /\ (/\ connectivity.status # "none"
        /\ connectivity.versionOK
        /\ connectivity.namespacesOK
        /\ discoveryErr
        /\ Len(catalog) > 0)
          => connectivity.status = "ok"

\* the connectivity check passed and the resolution of a name that the
\* partial catalog holds failed with the discovery error
C28_Witness ==
    /\ connectivity.status = "ok"
    /\ PartialCatalogCarries
    /\ resolveRes = DiscoveryFailed

(***************************************************************************)
(* Disabled tools: the toolfilter package and the registration loop of     *)
(* main. Tool names and list entries are ASCII byte strings.               *)
(***************************************************************************)
tool_list_resources == <<108,105,115,116,95,114,101,115,111,117,114,99,101,115>>
    \* "list_resources"
tool_get_resource == <<103,101,116,95,114,101,115,111,117,114,99,101>>
    \* "get_resource"
tool_list_api_resources == <<108,105,115,116,95,97,112,105,95,114,101,115,111,117,114,99,101,115>>
    \* "list_api_resources"
tool_list_contexts == <<108,105,115,116,95,99,111,110,116,101,120,116,115>>
    \* "list_contexts"
tool_get_logs == <<103,101,116,95,108,111,103,115>>
    \* "get_logs"
tool_get_pod_containers == <<103,101,116,95,112,111,100,95,99,111,110,116,97,105,110,101,114,115>>
    \* "get_pod_containers"
tool_get_node_metrics == <<103,101,116,95,110,111,100,101,95,109,101,116,114,105,99,115>>
    \* "get_node_metrics"
tool_get_pod_metrics == <<103,101,116,95,112,111,100,95,109,101,116,114,105,99,115>>
    \* "get_pod_metrics"
tool_encode_base64 == <<101,110,99,111,100,101,95,98,97,115,101,54,52>>
    \* "encode_base64"
tool_decode_base64 == <<100,101,99,111,100,101,95,98,97,115,101,54,52>>
    \* "decode_base64"

\* the tools of the four handlers, in the order main walks them
ResourceTools == <<tool_list_resources, tool_get_resource,
                   tool_list_api_resources, tool_list_contexts>>
LogTools == <<tool_get_logs, tool_get_pod_containers>>
MetricsTools == <<tool_get_node_metrics, tool_get_pod_metrics>>
UtilsTools == <<tool_encode_base64, tool_decode_base64>>
AllTools == ResourceTools \o LogTools \o MetricsTools \o UtilsTools

\* os.Getenv: the value of a variable, empty when it is not set
Getenv(env, key) == IF env[key].set THEN env[key].value ELSE EmptyStr

Unset == [set |-> FALSE, value |-> EmptyStr]
SetTo(v) == [set |-> TRUE, value |-> v]

\* the separators of parseDisabledTools: comma, space, tab, LF, CR
IsSeparator(c) == c \in {44, 32, 9, 10, 13}

\* strings.FieldsFunc: the maximal runs of characters that are not
\* separators; cur is the run being read at position i
RECURSIVE FieldsFrom(_, _, _)
FieldsFrom(s, i, cur) ==
    IF i > Len(s)
    THEN IF cur = EmptyStr THEN << >> ELSE <<cur>>
    ELSE IF IsSeparator(s[i])
         THEN IF cur = EmptyStr
              THEN FieldsFrom(s, i + 1, EmptyStr)
              ELSE <<cur>> \o FieldsFrom(s, i + 1, EmptyStr)
         ELSE FieldsFrom(s, i + 1, Append(cur, s[i]))

FieldsFunc(s) == FieldsFrom(s, 1, EmptyStr)

parseDisabledTools(value) ==
    IF value = EmptyStr THEN << >> ELSE FieldsFunc(value)

\* strings.EqualFold, on ASCII strings
EqualFold(s, t) == ToLower(s) = ToLower(t)

\* variant: the names are compared as written
IsDisabled_caseSensitive(disabledTools, toolName) ==
    \E i \in 1..Len(disabledTools) : toolName = disabledTools[i]

IsDisabled(disabledTools, toolName) ==
    \E i \in 1..Len(disabledTools) : EqualFold(toolName, disabledTools[i])

\* the value NewFilter parses: the flag, or DISABLED_TOOLS when it is empty
NewFilter(disabledToolsValue, env) ==
    parseDisabledTools(IF disabledToolsValue = EmptyStr
                       THEN Getenv(env, "DISABLED_TOOLS")
                       ELSE disabledToolsValue)

v_logs == <<103,101,116,95,108,111,103,115>>
    \* "get_logs"
v_upper == <<71,69,84,95,76,79,71,83,44,103,101,116,95,112,111,100>>
    \* "GET_LOGS,get_pod"
v_mixed == <<71,101,116,95,76,111,103,115,44,32,108,105,115,116,95,99,111,110,116,101,120,116,115,44>>
    \* "Get_Logs, list_contexts,"
v_info == <<103,101,116,95,114,101,115,111,117,114,99,101,95,105,110,102,111,9,101,110,99,111,100,101,95,98,97,115,101,54,52>>
    \* "get_resource_info\tencode_base64"
v_blank == <<32>>
    \* " "
v_metrics == <<103,101,116,95,112,111,100,95,109,101,116,114,105,99,115,44,103,101,116,95,110,111,100,101,95,109,101,116,114,105,99,115>>
    \* "get_pod_metrics,get_node_metrics"

FlagValues == {EmptyStr, v_logs, v_upper, v_mixed, v_info, v_blank, v_metrics}
AppEnvValues == {Unset, SetTo(EmptyStr), SetTo(v_logs), SetTo(v_metrics)}
GenericEnvValues == {Unset, SetTo(v_upper), SetTo(v_info), SetTo(v_metrics)}

\* main when it reaches the creation of the filter: flag and environment
InitStartup ==
    /\ MetricsIdle
    /\ CodecIdle
    /\ ResolveIdle
    /\ ToolsIdle
    /\ EnvIdle
    /\ ToolFilterIdle
    /\ \E flagValue \in FlagValues, app \in AppEnvValues, generic \in GenericEnvValues :
          startup = [phase |-> "started",
                     disabledTools |-> flagValue,
                     env |-> [MCP_KUBERNETES_RO_DISABLED_TOOLS |-> app,
                              DISABLED_TOOLS |-> generic],
                     filter |-> << >>,
                     next |-> 1,
                     registered |-> << >>]

StartupFrame ==
    UNCHANGED <<metricsVars, codec, resolveVars, toolVars, envcall, toolfilter>>

\* filter := toolfilter.NewFilter(*disabledTools)
CreateFilter ==
    /\ startup.phase = "started"
    /\ startup' = [startup EXCEPT
                      !.phase = "registering",
                      !.filter = NewFilter(startup.disabledTools, startup.env)]
    /\ StartupFrame

\* one turn of the registration loop: the tool is skipped or added
RegisterTool ==
    /\ startup.phase = "registering"
    /\ startup.next <= Len(AllTools)
    /\ LET toolName == AllTools[startup.next] IN
          startup' = [startup EXCEPT
                        !.next = @ + 1,
                        !.registered =
                            IF IsDisabled(startup.filter, toolName)
                            THEN @
                            ELSE Append(@, toolName)]
    /\ StartupFrame

\* the loop is over and the server is handed to the transport
Serve ==
    /\ startup.phase = "registering"
    /\ startup.next > Len(AllTools)
    /\ startup' = [startup EXCEPT !.phase = "serving"]
    /\ StartupFrame

NextStartup == CreateFilter \/ RegisterTool \/ Serve

SpecStartup == InitStartup /\ [][NextStartup]_vars

\* the names registered so far and the names the loop has gone through
RegisteredNames == { startup.registered[i] : i \in 1..Len(startup.registered) }
VisitedTools == { AllTools[i] : i \in 1..(startup.next - 1) }

\* an entry of the filter's list is the whole name, up to the case of letters
NamedInList(name) ==
    \E i \in 1..Len(startup.filter) : SameFold(startup.filter[i], name)

\* C21: a tool whose name equals an entry of the disabled-tools list, the
\* case of letters apart and as a whole name, is never registered, and
\* every other tool that GetTools returns is registered once the loop has
\* passed it
C21_DisabledToolsNotRegistered ==
    startup.phase \in {"registering", "serving"} =>
        /\ \A name \in RegisteredNames : ~NamedInList(name)
        /\ \A name \in VisitedTools : ~NamedInList(name) => name \in RegisteredNames

\* get_logs is disabled by an entry in another case, get_pod_containers
\* and get_pod_metrics are registered although "get_pod" is an entry
C21_Witness ==
    /\ startup.phase = "serving"
    /\ startup.filter = <<ToUpper(tool_get_logs), <<103,101,116,95,112,111,100>> >>
    /\ tool_get_logs \notin RegisteredNames
    /\ tool_get_pod_containers \in RegisteredNames
    /\ tool_get_pod_metrics \in RegisteredNames
    /\ Len(startup.registered) = Len(AllTools) - 1

\* the first non-empty of the three sources, in the documented order
FirstNonEmpty(values) ==
    IF \E i \in 1..Len(values) : values[i] # EmptyStr
    THEN values[CHOOSE i \in 1..Len(values) :
                    /\ values[i] # EmptyStr
                    /\ \A j \in 1..(i - 1) : values[j] = EmptyStr]
    ELSE EmptyStr

DocumentedSources ==
    <<startup.disabledTools,
      Getenv(startup.env, "MCP_KUBERNETES_RO_DISABLED_TOOLS"),
      Getenv(startup.env, "DISABLED_TOOLS")>>

\* C22: the disabled-tools list is the list of names of the first
\* non-empty of the --disabled-tools flag, MCP_KUBERNETES_RO_DISABLED_TOOLS
\* and DISABLED_TOOLS, and is empty when none is set
C22_FirstNonEmptySource ==
    startup.phase \in {"registering", "serving"} =>
        startup.filter = parseDisabledTools(FirstNonEmpty(DocumentedSources))

(***************************************************************************)
(* env.FirstDefault                                                        *)
(***************************************************************************)
\* the loop that returns the value as it was read
RECURSIVE FirstDefaultFrom_untrimmed(_, _, _, _)
FirstDefaultFrom_untrimmed(env, defaultValue, keys, i) ==
    IF i > Len(keys)
    THEN defaultValue
    ELSE IF TrimSpace(Getenv(env, keys[i])) # EmptyStr
         THEN Getenv(env, keys[i])
         ELSE FirstDefaultFrom_untrimmed(env, defaultValue, keys, i + 1)

\* the loop over keys, from the i-th key on
RECURSIVE FirstDefaultFrom(_, _, _, _)
FirstDefaultFrom(env, defaultValue, keys, i) ==
    IF i > Len(keys)
    THEN defaultValue
    ELSE LET value == TrimSpace(Getenv(env, keys[i])) IN
         IF value # EmptyStr
         THEN value
         ELSE FirstDefaultFrom(env, defaultValue, keys, i + 1)

\* variant: the value found is not trimmed
FirstDefault_untrimmed(env, defaultValue, keys) ==
    FirstDefaultFrom_untrimmed(env, defaultValue, keys, 1)

FirstDefault(env, defaultValue, keys) == FirstDefaultFrom(env, defaultValue, keys, 1)

MaxKeys == 2

EnvKeys == {"KEY1", "KEY2", "KEY3"}

val_v == <<118>>                \* "v"
val_padded == <<32,118,32,119,9>>   \* " v w\t"
val_blank == <<32,9>>           \* " \t"
val_default == <<32,100>>       \* " d"

EnvValues == {Unset, SetTo(EmptyStr), SetTo(val_blank), SetTo(val_v), SetTo(val_padded)}
DefaultValues == {EmptyStr, val_v, val_default}

KeyLists == UNION { [1..n -> EnvKeys] : n \in 0..MaxKeys }

InitEnv ==
    /\ MetricsIdle
    /\ CodecIdle
    /\ ResolveIdle
    /\ ToolsIdle
    /\ StartupIdle
    /\ ToolFilterIdle
    /\ \E env \in [EnvKeys -> EnvValues], defaultValue \in DefaultValues,
          keys \in KeyLists :
          envcall = [phase |-> "called", env |-> env,
                     defaultValue |-> defaultValue, keys |-> keys]

CallFirstDefault ==
    /\ envcall.phase = "called"
    /\ envcall' = [phase |-> "returned", env |-> envcall.env,
                   defaultValue |-> envcall.defaultValue, keys |-> envcall.keys,
                   result |-> FirstDefault(envcall.env, envcall.defaultValue,
                                           envcall.keys)]
    /\ UNCHANGED <<metricsVars, codec, resolveVars, toolVars, startup, toolfilter>>

NextEnv == CallFirstDefault

SpecEnv == InitEnv /\ [][NextEnv]_vars

\* positions of the characters of v that are not whitespace
InkOf(v) == { i \in 1..Len(v) : ~IsWhite(v[i]) }

\* v from its first to its last character that is not whitespace
Core(v) ==
    LET first == CHOOSE i \in InkOf(v) : \A j \in InkOf(v) : i <= j
        last == CHOOSE i \in InkOf(v) : \A j \in InkOf(v) : j <= i
    IN  SubSeq(v, first, last)

\* positions of the keys whose variable is set to more than whitespace
Qualifying ==
    { i \in 1..Len(envcall.keys) :
        /\ envcall.env[envcall.keys[i]].set
        /\ InkOf(envcall.env[envcall.keys[i]].value) # {} }

\* C23: FirstDefault returns the value, without its leading and trailing
\* whitespace, of the first key whose variable holds more than whitespace;
\* variables that are unset, empty or blank are passed over, and with no
\* such key (no key at all included) the default is returned unchanged
C23_FirstDefault ==
    envcall.phase = "returned" =>
        IF Qualifying = {}
        THEN envcall.result = envcall.defaultValue
        ELSE LET i == CHOOSE i \in Qualifying : \A j \in Qualifying : i <= j
             IN  envcall.result = Core(envcall.env[envcall.keys[i]].value)

\* a blank variable is passed over and the padded value of the next key is
\* returned trimmed
C23_Witness ==
    /\ envcall.phase = "returned"
    /\ Len(envcall.keys) = 2
    /\ envcall.env[envcall.keys[1]] = SetTo(val_blank)
    /\ envcall.env[envcall.keys[2]] = SetTo(val_padded)
    /\ envcall.result = <<118,32,119>>
    /\ envcall.defaultValue = val_default


(***************************************************************************)
(* The Filter and the slices of its callers. A slice is an address of a    *)
(* backing array in the heap: two slices with the same address share       *)
(* their elements, and a copy is a new array with the same elements.       *)
(***************************************************************************)
\* make and copy: a new backing array holding the elements of heap[from]
CopyOf(heap, from) == Append(heap, heap[from])

\* variant: the filter keeps the slice it was given
NewFilterFromList_shared(heap, disabledTools) ==
    [heap |-> heap, disabledTools |-> disabledTools]

NewFilterFromList(heap, disabledTools) ==
    [heap |-> CopyOf(heap, disabledTools), disabledTools |-> Len(heap) + 1]

GetDisabledTools(heap, f) ==
    [heap |-> CopyOf(heap, f.disabledTools), result |-> Len(heap) + 1]

\* s[i] = v, through the slice at address s
StoreElement(heap, s, i, v) == [heap EXCEPT ![s][i] = v]

MaxEntries == 2
MaxViews == 2
MaxWrites == 2

str_modified == <<109,111,100,105,102,105,101,100>>   \* "modified"

EntryNames == {tool_get_resource, ToUpper(tool_get_logs), str_modified}
ProbeNames == {tool_get_resource, tool_get_logs, str_modified, EmptyStr}

InputLists == UNION { [1..n -> EntryNames] : n \in 0..MaxEntries }

NoFilter == [disabledTools |-> 0]

\* a caller holds a slice, the filter is not built yet
InitToolFilter ==
    /\ MetricsIdle
    /\ CodecIdle
    /\ ResolveIdle
    /\ ToolsIdle
    /\ StartupIdle
    /\ EnvIdle
    /\ \E input \in InputLists :
          toolfilter = [phase |-> "caller",
                        heap |-> <<input>>,
                        input |-> 1,
                        f |-> NoFilter,
                        given |-> << >>,
                        views |-> << >>,
                        writes |-> 0,
                        got |-> [calls |-> 0],
                        probe |-> [calls |-> 0]]

ToolFilterFrame ==
    UNCHANGED <<metricsVars, codec, resolveVars, toolVars, startup, envcall>>

\* filter := NewFilterFromList(input); given is the list at that moment
CallNewFilterFromList ==
    /\ toolfilter.phase = "caller"
    /\ LET made == NewFilterFromList(toolfilter.heap, toolfilter.input) IN
          toolfilter' = [toolfilter EXCEPT
                           !.phase = "built",
                           !.heap = made.heap,
                           !.f = [disabledTools |-> made.disabledTools],
                           !.given = toolfilter.heap[toolfilter.input]]
    /\ ToolFilterFrame

\* the caller assigns to an element of the slice it passed
WriteInput ==
    /\ toolfilter.phase = "built"
    /\ toolfilter.writes < MaxWrites
    /\ \E i \in 1..Len(toolfilter.heap[toolfilter.input]), v \in EntryNames :
          /\ toolfilter.heap[toolfilter.input][i] # v
          /\ toolfilter' = [toolfilter EXCEPT
                              !.heap = StoreElement(@, toolfilter.input, i, v),
                              !.writes = @ + 1]
    /\ ToolFilterFrame

\* result := filter.GetDisabledTools(); got is what the call returned
CallGetDisabledTools ==
    /\ toolfilter.phase = "built"
    /\ Len(toolfilter.views) < MaxViews
    /\ LET r == GetDisabledTools(toolfilter.heap, toolfilter.f) IN
          toolfilter' = [toolfilter EXCEPT
                           !.heap = r.heap,
                           !.views = Append(@, r.result),
                           !.got = [calls |-> @.calls + 1,
                                    list |-> r.heap[r.result],
                                    afterWrites |-> toolfilter.writes]]
    /\ ToolFilterFrame

\* the caller assigns to an element of a slice GetDisabledTools returned
WriteView ==
    /\ toolfilter.phase = "built"
    /\ toolfilter.writes < MaxWrites
    /\ \E k \in 1..Len(toolfilter.views) :
       \E i \in 1..Len(toolfilter.heap[toolfilter.views[k]]), v \in EntryNames :
          /\ toolfilter.heap[toolfilter.views[k]][i] # v
          /\ toolfilter' = [toolfilter EXCEPT
                              !.heap = StoreElement(@, toolfilter.views[k], i, v),
                              !.writes = @ + 1]
    /\ ToolFilterFrame

\* filter.IsDisabled(name)
CallIsDisabled ==
    /\ toolfilter.phase = "built"
    /\ \E name \in ProbeNames :
          toolfilter' = [toolfilter EXCEPT
                           !.probe = [calls |-> 1,
                                      name |-> name,
                                      result |-> IsDisabled(
                                          toolfilter.heap[toolfilter.f.disabledTools],
                                          name),
                                      afterWrites |-> toolfilter.writes]]
    /\ ToolFilterFrame

NextToolFilter ==
    \/ CallNewFilterFromList
    \/ WriteInput
    \/ CallGetDisabledTools
    \/ WriteView
    \/ CallIsDisabled

SpecToolFilter == InitToolFilter /\ [][NextToolFilter]_vars

\* C24: after NewFilterFromList, assignments to the slice that was passed
\* and to slices GetDisabledTools returned change no later result: every
\* GetDisabledTools returns the list as it was given to the constructor and
\* IsDisabled answers for that list
C24_FilterListIsolated ==
    /\ toolfilter.phase = "built" /\ toolfilter.got.calls > 0
          => toolfilter.got.list = toolfilter.given
    /\ toolfilter.phase = "built" /\ toolfilter.probe.calls > 0
          => (toolfilter.probe.result
                <=> \E i \in 1..Len(toolfilter.given) :
                       SameFold(toolfilter.given[i], toolfilter.probe.name))

\* the passed slice and the first returned slice were both assigned to, and
\* GetDisabledTools and IsDisabled were called after the two assignments
C24_Witness ==
    /\ toolfilter.phase = "built"
    /\ toolfilter.heap[toolfilter.input] # toolfilter.given
    /\ Len(toolfilter.views) = 2
    /\ toolfilter.heap[toolfilter.views[1]] # toolfilter.given
    /\ toolfilter.got.calls = 2
    /\ toolfilter.got.afterWrites = 2
    /\ toolfilter.got.list = toolfilter.given
    /\ toolfilter.probe.calls > 0
    /\ toolfilter.probe.afterWrites = 2
    /\ toolfilter.probe.result

(***************************************************************************)
(* The filter only selects                                                 *)
(***************************************************************************)
\* the lines of a result of FilterLogs; the empty result has no line, as
\* CountMatchingLines reads it
OutputLines(out) == IF out = EmptyStr THEN << >> ELSE SplitLines(out)

\* a is b with some elements left out
RECURSIVE IsSubsequence(_, _)
IsSubsequence(a, b) ==
    IF a = << >> THEN TRUE
    ELSE IF b = << >> THEN FALSE
    ELSE IF Head(a) = Head(b) THEN IsSubsequence(Tail(a), Tail(b))
    ELSE IsSubsequence(a, Tail(b))

\* C29: for every filter the lines FilterLogs returns are lines of the
\* input in their order, none altered, repeated or invented; get_logs
\* therefore reports matching_lines <= total_lines
C29_OutputIsSubsequence ==
    /\ (filter.phase = "FilterLogs" /\ ~filter.result.err.isErr)
          => IsSubsequence(OutputLines(filter.result.out), SplitLines(filter.content))
    /\ (filter.phase = "GetLogs" /\ ~filter.result.isErr)
          => /\ IsSubsequence(OutputLines(filter.result.logs),
                              SplitLines(filter.content))
             /\ filter.result.matching_lines <= filter.result.total_lines

\* of the lines "a" and "b" the second is returned
C29_Witness ==
    /\ filter.phase = "GetLogs"
    /\ ~filter.result.isErr
    /\ filter.content = <<97, NewLine, 98>>
    /\ filter.result.logs = <<98>>
    /\ filter.result.total_lines = 2
    /\ filter.result.matching_lines = 1

(***************************************************************************)
(* The empty pattern in literal mode                                       *)
(***************************************************************************)
\* an element of the comma-separated parameter is empty or blank
HasEmptyElement(param) ==
    /\ param # EmptyStr
    /\ \E i \in 1..Len(SplitCommaFrom(param, 1, 1)) :
          \A j \in 1..Len(SplitCommaFrom(param, 1, 1)[i]) :
              IsWhite(SplitCommaFrom(param, 1, 1)[i][j])

\* a get_logs call in literal mode that returned a response
LiteralResponse ==
    /\ filter.phase = "GetLogs"
    /\ ~filter.result.isErr
    /\ ~filter.request.params.UseRegex

\* C30: in literal mode the empty pattern matches every line: with an empty
\* element in grep_exclude every line is dropped, logs is empty and
\* matching_lines is 0; with an empty element in grep_include every line
\* passes the include stage, so the response is the one of the request
\* without grep_include
C30_EmptyPatternMatchesAll ==
    /\ (LiteralResponse /\ HasEmptyElement(filter.request.params.GrepExclude))
          => /\ filter.result.logs = EmptyStr
             /\ filter.result.matching_lines = 0
    /\ (LiteralResponse /\ HasEmptyElement(filter.request.params.GrepInclude))
          => LET alone == FilterLogs(filter.content,
                              FilterOptions(<< >>, filter.result.grep_exclude, FALSE))
             IN  /\ filter.result.logs = alone.out
                 /\ filter.result.matching_lines = Len(OutputLines(alone.out))

\* grep_exclude "b," on the lines "a" and "a": nothing is returned
C30_Witness ==
    /\ LiteralResponse
    /\ filter.request.params.GrepExclude = <<98, ch_comma>>
    /\ filter.result.grep_exclude = <<<<98>>, EmptyStr>>
    /\ filter.content = <<97, NewLine, 97>>
    /\ filter.result.total_lines = 2
    /\ filter.result.logs = EmptyStr
    /\ filter.result.matching_lines = 0

(***************************************************************************)
(* The get_logs handler step by step: the position of the handler and the  *)
(* calls it has made to the log filter package and to the client.          *)
(***************************************************************************)
NoResult == [isErr |-> FALSE, pending |-> TRUE]

\* the handler returns, or goes on at the next position
Stop(result) == [pc |-> "done", result |-> result]
Goto(pc) == [pc |-> pc, result |-> NoResult]

\* the checks of the name, the context and max_lines
ArgumentsStep(params, contextOK) ==
    IF params.Name = EmptyStr THEN Stop(LogsError("pod name is required"))
    ELSE IF params.Context # EmptyStr /\ ~contextOK
    THEN Stop(LogsError("failed to create client with context"))
    ELSE IF params.MaxLines # EmptyStr /\ ~ParseIntOk(params.MaxLines)
    THEN Stop(LogsError("invalid max_lines value"))
    ELSE Goto("since")

SinceStep(params) ==
    IF ParseSinceTime(params.Since).err.isErr
    THEN Stop(LogsError("invalid since time"))
    ELSE Goto("validate")

\* filterOpts, built from the two parameters
RequestOptions(params) ==
    FilterOptions(GrepPatterns(params.GrepInclude),
                  GrepPatterns(params.GrepExclude), params.UseRegex)

\* variant: the outcome of the validation is not looked at
ValidateStep_unchecked(opts) == Goto("fetch")

ValidateStep(opts) ==
    IF ValidateFilterOptions(opts).isErr
    THEN Stop(LogsError("invalid filter options"))
    ELSE Goto("fetch")

FetchStep(fetchOK) ==
    IF ~fetchOK THEN Stop(LogsError("failed to get pod logs")) ELSE Goto("filter")

FilterStep(logs, opts) ==
    Stop(GetLogsFiltered(logs, opts, FilterLogs(logs, opts),
                         CountMatchingLines(logs, opts)))

\* the logs a pod holds in these runs
PodLogs == {EmptyStr, <<97, NewLine, 98>>}

\* a get_logs request arrives
InitGetLogs ==
    /\ MetricsIdle
    /\ CodecIdle
    /\ ResolveIdle
    /\ SinceIdle
    /\ CallersIdle
    /\ ListingIdle
    /\ BootIdle
    /\ \E content \in PodLogs, opts \in OptionsUniverse \ {NilOptions} :
       \E r \in LogRequests(opts) :
          filter = [phase |-> "get_logs", pc |-> "arguments", content |-> content,
                    request |-> r, calls |-> << >>, result |-> NoResult]

\* the handler moves to the position and result of a step, having made
\* the calls
Advance(step, made) ==
    /\ filter' = [filter EXCEPT !.pc = step.pc, !.result = step.result,
                                !.calls = @ \o made]
    /\ FilterFrame

HandleArguments ==
    /\ filter.phase = "get_logs" /\ filter.pc = "arguments"
    /\ Advance(ArgumentsStep(filter.request.params, filter.request.contextOK), << >>)

HandleSince ==
    /\ filter.phase = "get_logs" /\ filter.pc = "since"
    /\ Advance(SinceStep(filter.request.params), <<"ParseSinceTime">>)

HandleValidate ==
    /\ filter.phase = "get_logs" /\ filter.pc = "validate"
    /\ Advance(ValidateStep(RequestOptions(filter.request.params)),
               <<"ValidateFilterOptions">>)

HandleFetch ==
    /\ filter.phase = "get_logs" /\ filter.pc = "fetch"
    /\ Advance(FetchStep(filter.request.fetchOK), <<"GetPodLogsWithOptions">>)

HandleFilter ==
    /\ filter.phase = "get_logs" /\ filter.pc = "filter"
    /\ LET step == FilterStep(filter.content, RequestOptions(filter.request.params))
       IN  Advance(step,
                   IF step.result.isErr /\ step.result.step = "failed to filter logs"
                   THEN <<"FilterLogs">>
                   ELSE <<"FilterLogs", "CountMatchingLines">>)

NextGetLogs ==
    \/ HandleArguments
    \/ HandleSince
    \/ HandleValidate
    \/ HandleFetch
    \/ HandleFilter

SpecGetLogs == InitGetLogs /\ [][NextGetLogs]_vars

\* the handler that ran step by step returns what GetLogs returns
StepsAgreeWithGetLogs ==
    (filter.phase = "get_logs" /\ filter.pc = "done") =>
        filter.result = GetLogs(filter.request.params, filter.request.contextOK,
                                [ok |-> filter.request.fetchOK,
                                 logs |-> IF filter.request.fetchOK
                                          THEN filter.content ELSE EmptyStr])

\* the positions in the calls made so far where the call is one of names
CallsOf(names) == { i \in 1..Len(filter.calls) : filter.calls[i] \in names }

SinceIsValid == ~ParseSinceTime(filter.request.params.Since).err.isErr

PatternsAreValid ==
    filter.request.params.UseRegex => FailingAt(RequestOptions(filter.request.params)) = {}

\* C26: in get_logs the fetch of the logs and FilterLogs start only after
\* ParseSinceTime and ValidateFilterOptions have both succeeded; with an
\* invalid since or a pattern that does not compile the call ends with an
\* error, no log is fetched and no line is filtered
C26_ValidationBeforeFetch ==
    filter.phase = "get_logs" =>
        /\ \A i \in CallsOf({"GetPodLogsWithOptions", "FilterLogs"}) :
              /\ SinceIsValid
              /\ PatternsAreValid
              /\ \E j \in CallsOf({"ParseSinceTime"}) : j < i
              /\ \E j \in CallsOf({"ValidateFilterOptions"}) : j < i
        /\ (filter.pc = "done" /\ ~(SinceIsValid /\ PatternsAreValid))
              => /\ filter.result.isErr
                 /\ CallsOf({"GetPodLogsWithOptions", "FilterLogs"}) = {}

\* a request with since "1d" and regular expressions went through the two
\* validations, then the fetch, then the filter
C26_Witness ==
    /\ filter.phase = "get_logs"
    /\ filter.pc = "done"
    /\ ~filter.result.isErr
    /\ filter.request.params.Since = <<49, ch_d>>
    /\ filter.request.params.UseRegex
    /\ filter.request.params.GrepInclude # EmptyStr
    /\ filter.calls = <<"ParseSinceTime", "ValidateFilterOptions",
                        "GetPodLogsWithOptions", "FilterLogs", "CountMatchingLines">>

=============================================================================
